---- MODULE Spec2Model ----
(***************************************************************************)
(* Verification model of the stm32f469_base_rtic firmware: the fixed-size  *)
(* RingBuffer (data_structures/ring_buffer.rs) and the DMA fault retry     *)
(* logic (task_handlers/dma2.rs).                                          *)
(***************************************************************************)
EXTENDS Integers, Sequences, FiniteSets, TLC

VARIABLES
    rb,           \* a RingBuffer: [buffer, write_pos, read_pos, count]
    pushed,       \* history: bytes admitted by successful pushes since new()/clear()
    popped,       \* history: bytes returned by pops since new()/clear()
    ret,          \* the last RingBuffer call: [op, n, cap, res, out]
    usart_6,      \* Usart6Controller: the DMA2 stream flags the retry logic reads
    retry_count,  \* Local::retry_count (u8), owned by the usart6 task
    fault_log,    \* history: one entry per fault check of handle_usart_error
    usart_result, \* result of the last handle_usart_error call
    otg_fs,       \* OtgFsController: [state, ep_out], the USB device and its OUT endpoint
    ring_buffer_tx, \* Shared::ring_buffer_tx (USB -> USART)
    ring_buffer_rx, \* Shared::ring_buffer_rx (USART -> USB)
    bridge_ret,   \* the last HostBridge / DMA data call: [op, res, staged, sent]
    number,       \* the argument of number_to_morse
    buffer_len,   \* the length of the buffer number_to_morse writes to
    morse,        \* what number_to_morse returned: [called, ok, length, text]
    error_queue,  \* ERROR_QUEUE: the queued fault codes, oldest first
    fault_ret,    \* the last fault call: [op, source, device, code, enqueued]
    now,          \* Mono::now().ticks(), in milliseconds, wrapping
    red_led,      \* Shared::red_led: the pin and the Morse playback state
    display,      \* task_display_error_codes: [pc, delay_left, updates, ticked]
    enqueued_log, \* history: the codes the display's queue accepted
    dequeued_log, \* history: the codes start_new_sequence took from the queue
    dwell,        \* history: the time since morse_state or morse_index last changed
    shown,        \* history: the symbols of the loaded sequence the LED has lit for
    cs_stack,     \* the contexts inside a fault-queue call, the running one last
    primask,      \* PRIMASK: TRUE while interrupts are disabled
    running,      \* the dispatched RTIC tasks, the running one last: [task, pc, held]
    dma,          \* DMA2 streams 1 and 6 of USART6: buffers, NDTR, flags, last start
    is_red_led_active,  \* Shared::is_red_led_active
    blue_led,     \* the blue LED's pin: "on" or "off"
    heartbeat,    \* blue_led_blink: [pc, ran, observed], observed the flag it read last
    tx_task,      \* ring_buffer_tx_to_usart_dma: [state, arg], spawned or idle
    rx_task       \* ring_buffer_rx_to_serial: [state, arg]

ringVars == <<rb, pushed, popped, ret>>
retryVars == <<usart_6, retry_count, fault_log, usart_result>>
bridgeVars == <<otg_fs, ring_buffer_tx, ring_buffer_rx, bridge_ret>>
encoderVars == <<number, buffer_len, morse>>
faultVars == <<error_queue, fault_ret>>
displayVars == <<now, red_led, display, enqueued_log, dequeued_log, shown, dwell>>
queueVars == <<cs_stack, primask>>
lockVars == <<running>>
dmaVars == <<dma>>
hbVars == <<is_red_led_active, blue_led, heartbeat>>
fwdVars == <<tx_task, rx_task>>
vars == <<rb, pushed, popped, ret, usart_6, retry_count, fault_log, usart_result,
          otg_fs, ring_buffer_tx, ring_buffer_rx, bridge_ret, number, buffer_len, morse,
          error_queue, fault_ret, now, red_led, display, enqueued_log, dequeued_log,
          shown, dwell, cs_stack, primask, running, dma, is_red_led_active,
          blue_led, heartbeat, tx_task, rx_task>>

----------------------------------------------------------------------------
(* Sizes.  The firmware is built with RING_BUFFER_LEN = 512; the model      *)
(* checks the same code over a small capacity.                              *)

RING_BUFFER_LEN == 3

\* longest slice handed to push / largest length asked from pop
MaxData == RING_BUFFER_LEN + 1

\* cap on the number of bytes admitted between two clears
MaxPushed == 6

\* cap on the number of recorded fault checks
MaxEvents == 7

\* the byte values carried as data (0 is what new() and clear() leave in memory)
Byte == 1..2

\* DATA_PACKET_SIZE and DMA_BUFFER_LEN are 128 in the firmware, a quarter of
\* the ring; the model keeps them below the ring's capacity
DATA_PACKET_SIZE == 2

DMA_BUFFER_LEN == 2

\* the N of ERROR_QUEUE: Queue<u16, N>, 256 in the firmware
ERROR_QUEUE_LEN == 4

MAX_RETRY_COUNT == 3

\* red_led_handler.rs: Morse timing in milliseconds
MORSE_DOT_DURATION == 200

\* main.rs: the display task's idle delay in milliseconds
DISPLAY_IDLE_DELAY == 500

\* the clock wraps after this many steps (2^32 ms in the firmware)
TimeWrapSteps == 16

\* the number of faults reported in a run of the display
MaxFaults == 2

\* the longest of the short buffers number_to_morse is tried with
MaxDestination == 29

\* config.rs: the size of the buffer a Morse text is written to
MAX_MORSE_LENGTH == 100

\* the largest u16
U16_MAX == 65535

U8_MAX == 255

----------------------------------------------------------------------------
(* Helpers *)

Min(a, b) == IF a <= b THEN a ELSE b

IsPrefix(s, t) == Len(s) <= Len(t) /\ SubSeq(t, 1, Len(s)) = s

SeqsUpTo(S, n) == UNION {[1..k -> S] : k \in 0..n}

Data == SeqsUpTo(Byte, MaxData)

----------------------------------------------------------------------------
(* RingBuffer, ring_buffer.rs *)

Slots == 0..(RING_BUFFER_LEN - 1)

\* RingBuffer::new
NewRingBuffer ==
    [buffer |-> [i \in Slots |-> 0], write_pos |-> 0, read_pos |-> 0, count |-> 0]

\* RingBuffer::len
RbLen(b) == b.count

\* RingBuffer::is_empty
IsEmpty(b) == b.count = 0

\* RingBuffer::available_space
AvailableSpace(b) == RING_BUFFER_LEN - b.count

\* mutant of Push: on overflow the bytes that fit are admitted, the rest dropped
PushPartialAdmit(b, data) ==
    LET fit == Min(Len(data), AvailableSpace(b))
        wp == b.write_pos
    IN [rb |-> [buffer |-> [i \in Slots |->
                              IF (i - wp) % RING_BUFFER_LEN < fit
                                  THEN data[((i - wp) % RING_BUFFER_LEN) + 1]
                                  ELSE b.buffer[i]],
                write_pos |-> (wp + fit) % RING_BUFFER_LEN,
                read_pos |-> b.read_pos,
                count |-> b.count + fit],
        res |-> IF Len(data) > AvailableSpace(b) THEN "BufferOverflow" ELSE "Ok"]

\* mutant of Push: count is advanced by the first run only
PushCountFirstChunk(b, data) ==
    LET data_len == Len(data)
        wp == b.write_pos
        first_chunk_len == Min(data_len, RING_BUFFER_LEN - wp)
    IN IF data_len > AvailableSpace(b)
           THEN [rb |-> b, res |-> "BufferOverflow"]
           ELSE [rb |-> [buffer |-> [i \in Slots |->
                                       IF (i - wp) % RING_BUFFER_LEN < data_len
                                           THEN data[((i - wp) % RING_BUFFER_LEN) + 1]
                                           ELSE b.buffer[i]],
                         write_pos |-> (wp + data_len) % RING_BUFFER_LEN,
                         read_pos |-> b.read_pos,
                         count |-> b.count + first_chunk_len],
                 res |-> "Ok"]

\* mutant of Push: the write cursor is advanced without the modulo
PushNoModulo(b, data) ==
    LET data_len == Len(data)
        wp == b.write_pos
    IN IF data_len > AvailableSpace(b)
           THEN [rb |-> b, res |-> "BufferOverflow"]
           ELSE [rb |-> [buffer |-> [i \in Slots |->
                                       IF (i - wp) % RING_BUFFER_LEN < data_len
                                           THEN data[((i - wp) % RING_BUFFER_LEN) + 1]
                                           ELSE b.buffer[i]],
                         write_pos |-> wp + data_len,
                         read_pos |-> b.read_pos,
                         count |-> b.count + data_len],
                 res |-> "Ok"]

\* RingBuffer::push: all of data or nothing, copied in one or two runs
Push(b, data) ==
    LET data_len == Len(data)
        wp == b.write_pos
        first_chunk_len == Min(data_len, RING_BUFFER_LEN - wp)
        second_chunk_len == data_len - first_chunk_len
        buf1 == [i \in Slots |->
                   IF i >= wp /\ i < wp + first_chunk_len
                       THEN data[i - wp + 1]
                       ELSE b.buffer[i]]
        buf2 == IF second_chunk_len > 0
                    THEN [i \in Slots |->
                            IF i < second_chunk_len
                                THEN data[first_chunk_len + i + 1]
                                ELSE buf1[i]]
                    ELSE buf1
    IN IF data_len > AvailableSpace(b)
           THEN [rb |-> b, res |-> "BufferOverflow"]
           ELSE [rb |-> [buffer |-> buf2,
                         write_pos |-> (wp + data_len) % RING_BUFFER_LEN,
                         read_pos |-> b.read_pos,
                         count |-> b.count + data_len],
                 res |-> "Ok"]

\* RingBuffer::push_n: a heapless::Vec<u8, N> pushed as a slice
PushN(b, data) == Push(b, data)

\* mutant of Pop: a zero-length read still advances the read cursor
PopAdvanceOnEmpty(b, n) ==
    LET to_read == Min(n, b.count)
        rp == b.read_pos
    IN IF to_read = 0
           THEN [rb |-> [b EXCEPT !.read_pos = (rp + 1) % RING_BUFFER_LEN], out |-> <<>>]
           ELSE [rb |-> [b EXCEPT !.read_pos = (rp + to_read) % RING_BUFFER_LEN,
                                  !.count = b.count - to_read],
                 out |-> [k \in 1..to_read |-> b.buffer[(rp + k - 1) % RING_BUFFER_LEN]]]

\* mutant of Pop: the wrapped run is read from the wrong end (newest first)
PopReversed(b, n) ==
    LET to_read == Min(n, b.count)
        rp == b.read_pos
    IN IF to_read = 0
           THEN [rb |-> b, out |-> <<>>]
           ELSE [rb |-> [b EXCEPT !.read_pos = (rp + to_read) % RING_BUFFER_LEN,
                                  !.count = b.count - to_read],
                 out |-> [k \in 1..to_read |->
                            b.buffer[(rp + to_read - k) % RING_BUFFER_LEN]]]

\* RingBuffer::pop(output) with n = output.len(): out is output[..to_read]
Pop(b, n) ==
    LET to_read == Min(n, b.count)
        rp == b.read_pos
        first_chunk_len == Min(to_read, RING_BUFFER_LEN - rp)
        second_chunk_len == to_read - first_chunk_len
        first == [k \in 1..first_chunk_len |-> b.buffer[rp + k - 1]]
        second == [k \in 1..second_chunk_len |-> b.buffer[k - 1]]
    IN IF to_read = 0
           THEN [rb |-> b, out |-> <<>>]
           ELSE [rb |-> [b EXCEPT !.read_pos = (rp + to_read) % RING_BUFFER_LEN,
                                  !.count = b.count - to_read],
                 out |-> first \o second]

\* mutant of PopN: the request is not clamped to the vector capacity N
PopNNoClamp(b, cnt, N) ==
    LET to_read == Min(cnt, b.count)
        p == Pop(b, to_read)
    IN IF to_read = 0
           THEN [rb |-> b, out |-> <<>>]
           ELSE [rb |-> p.rb, out |-> IF Len(p.out) > N THEN <<>> ELSE p.out]

\* RingBuffer::pop_n::<N>(count): the result Vec holds at most N bytes;
\* extend_from_slice leaves it empty when the slice does not fit
PopN(b, cnt, N) ==
    LET to_read == Min(Min(cnt, b.count), N)
        p == Pop(b, to_read)
    IN IF to_read = 0
           THEN [rb |-> b, out |-> <<>>]
           ELSE [rb |-> p.rb, out |-> IF Len(p.out) > N THEN <<>> ELSE p.out]

\* mutant of Clear: the cursors and count are reset but memory is not zeroed
ClearNoZero(b) == [b EXCEPT !.write_pos = 0, !.read_pos = 0, !.count = 0]

\* RingBuffer::clear
Clear(b) ==
    [buffer |-> [i \in Slots |-> 0], write_pos |-> 0, read_pos |-> 0, count |-> 0]

----------------------------------------------------------------------------
(* Usart6Controller and the retry logic, usart_6.rs and dma2.rs.            *)
(* The release build is modelled: without the "debug" feature               *)
(* check_dma_rx_error and check_dma_tx_error only read the error flag.      *)

\* Usart6Controller::check_dma_rx_error: is_transfer_error of DMA2 stream 1
CheckDmaRxError(u) == u.dma_rx_error

\* Usart6Controller::check_dma_tx_error: is_transfer_error of DMA2 stream 6
CheckDmaTxError(u) == u.dma_tx_error

\* Usart6Controller::clear_errors: both streams' transfer-error flags
ClearErrors(u) == [u EXCEPT !.dma_rx_error = FALSE, !.dma_tx_error = FALSE]

\* Usart6Controller::restart_dma_rx: clear_transfer_error, then start
RestartDmaRx(u) == [u EXCEPT !.dma_rx_error = FALSE, !.dma_rx_enabled = TRUE]

\* Usart6Controller::restart_dma_tx: clear_transfer_error, then start
RestartDmaTx(u) == [u EXCEPT !.dma_tx_error = FALSE, !.dma_tx_enabled = TRUE]

\* Usart6Controller::clear_usart_flags(RXNE): a read of DR when RXNE is set
ClearUsartFlags(u) == [u EXCEPT !.rxne = FALSE]

\* a transfer error of a stream: the flag is raised and the stream stops
StreamFault(u, dir) ==
    IF dir = "rx"
        THEN [u EXCEPT !.dma_rx_error = TRUE, !.dma_rx_enabled = FALSE]
        ELSE [u EXCEPT !.dma_tx_error = TRUE, !.dma_tx_enabled = FALSE]

\* u8::saturating_add
SaturatingAdd(x, y) == Min(x + y, U8_MAX)

\* mutant of HandleErrorCondition: the limit test is >= instead of >
HandleErrorConditionOffByOne(u, rc, dir) ==
    LET n == SaturatingAdd(rc, 1) IN
    IF n >= MAX_RETRY_COUNT
        THEN [usart |-> u, retry_count |-> 0, res |-> "RetryLimitExceeded"]
        ELSE [usart |-> IF dir = "rx" THEN RestartDmaRx(ClearErrors(u))
                                      ELSE RestartDmaTx(ClearErrors(u)),
              retry_count |-> n,
              res |-> "Ok"]

\* handle_error_condition, with restart_fn = restart_dma_rx or restart_dma_tx.
\* dma_rx and dma_tx are Some from init on, so restart_fn does not fail.
HandleErrorCondition(u, rc, dir) ==
    LET n == SaturatingAdd(rc, 1) IN
    IF n > MAX_RETRY_COUNT
        THEN [usart |-> u, retry_count |-> 0, res |-> "RetryLimitExceeded"]
        ELSE [usart |-> IF dir = "rx" THEN RestartDmaRx(ClearErrors(u))
                                      ELSE RestartDmaTx(ClearErrors(u)),
              retry_count |-> n,
              res |-> "Ok"]

\* an entry of fault_log: the direction whose fault was handled ("none" for a
\* check that found no fault), the result, the counter afterwards and whether
\* the stream was left restarted
LogEntry(dir, r) ==
    [dir |-> dir, res |-> r.res, count |-> r.retry_count,
     restarted |-> IF dir = "rx"
                       THEN r.usart.dma_rx_enabled /\ ~r.usart.dma_rx_error
                       ELSE dir = "tx" /\ r.usart.dma_tx_enabled /\ ~r.usart.dma_tx_error]

\* handle_usart_error.  late_tx: stream 6 raises a transfer error between the
\* two checks (the hardware runs while the handler does).
HandleUsartError(u, rc, late_tx) ==
    LET rx_err == CheckDmaRxError(u)
        r1 == IF rx_err THEN HandleErrorCondition(u, rc, "rx")
                        ELSE [usart |-> u, retry_count |-> rc, res |-> "Ok"]
        log1 == IF rx_err THEN <<LogEntry("rx", r1)>> ELSE <<>>
        u1 == IF late_tx THEN StreamFault(r1.usart, "tx") ELSE r1.usart
        tx_err == CheckDmaTxError(u1)
        r2 == IF tx_err THEN HandleErrorCondition(u1, r1.retry_count, "tx")
                        ELSE [usart |-> u1, retry_count |-> r1.retry_count, res |-> "Ok"]
        log2 == IF tx_err THEN <<LogEntry("tx", r2)>> ELSE <<>>
    IN IF r1.res # "Ok"
           THEN [usart |-> r1.usart, retry_count |-> r1.retry_count,
                 res |-> r1.res, log |-> log1]
           ELSE IF r2.res # "Ok"
                    THEN [usart |-> r2.usart, retry_count |-> r2.retry_count,
                          res |-> r2.res, log |-> log1 \o log2]
                    ELSE [usart |-> ClearUsartFlags(r2.usart),
                          retry_count |-> r2.retry_count,
                          res |-> "Ok",
                          log |-> IF rx_err \/ tx_err
                                      THEN log1 \o log2
                                      ELSE <<LogEntry("none", r2)>>]

----------------------------------------------------------------------------
(* The retry logic as actions *)

\* DMA2 stream 1 (RX) signals a transfer error
DmaRxFault ==
    /\ usart_6' = StreamFault(usart_6, "rx")
    /\ UNCHANGED <<retry_count, fault_log, usart_result>> /\ UNCHANGED ringVars /\ UNCHANGED bridgeVars /\ UNCHANGED encoderVars /\ UNCHANGED faultVars /\ UNCHANGED displayVars /\ UNCHANGED queueVars /\ UNCHANGED lockVars /\ UNCHANGED dmaVars /\ UNCHANGED hbVars /\ UNCHANGED fwdVars

\* DMA2 stream 6 (TX) signals a transfer error
DmaTxFault ==
    /\ usart_6' = StreamFault(usart_6, "tx")
    /\ UNCHANGED <<retry_count, fault_log, usart_result>> /\ UNCHANGED ringVars /\ UNCHANGED bridgeVars /\ UNCHANGED encoderVars /\ UNCHANGED faultVars /\ UNCHANGED displayVars /\ UNCHANGED queueVars /\ UNCHANGED lockVars /\ UNCHANGED dmaVars /\ UNCHANGED hbVars /\ UNCHANGED fwdVars

\* USART6 receives a byte: RXNE is set
UsartRxne ==
    /\ usart_6' = [usart_6 EXCEPT !.rxne = TRUE]
    /\ UNCHANGED <<retry_count, fault_log, usart_result>> /\ UNCHANGED ringVars /\ UNCHANGED bridgeVars /\ UNCHANGED encoderVars /\ UNCHANGED faultVars /\ UNCHANGED displayVars /\ UNCHANGED queueVars /\ UNCHANGED lockVars /\ UNCHANGED dmaVars /\ UNCHANGED hbVars /\ UNCHANGED fwdVars

\* the usart6 task calls handle_usart_error(usart, ctx.local.retry_count)
Usart6HandleUsartError ==
    \E late_tx \in BOOLEAN :
        LET r == HandleUsartError(usart_6, retry_count, late_tx) IN
        /\ Len(fault_log) < MaxEvents
        /\ usart_6' = r.usart
        /\ retry_count' = r.retry_count
        /\ usart_result' = r.res
        /\ fault_log' = fault_log \o r.log
        /\ UNCHANGED ringVars /\ UNCHANGED bridgeVars /\ UNCHANGED encoderVars /\ UNCHANGED faultVars /\ UNCHANGED displayVars /\ UNCHANGED queueVars /\ UNCHANGED lockVars /\ UNCHANGED dmaVars /\ UNCHANGED hbVars /\ UNCHANGED fwdVars

----------------------------------------------------------------------------
(* RingBuffer operations as actions *)

Call(op, n, cap, res, out) == [op |-> op, n |-> n, cap |-> cap, res |-> res, out |-> out]

RbPush ==
    \E data \in Data :
        LET r == Push(rb, data) IN
        /\ r.res = "Ok" => Len(pushed) + Len(data) <= MaxPushed
        /\ rb' = r.rb
        /\ pushed' = IF r.res = "Ok" THEN pushed \o data ELSE pushed
        /\ ret' = Call("push", Len(data), 0, r.res, <<>>)
        /\ UNCHANGED <<popped>> /\ UNCHANGED retryVars /\ UNCHANGED bridgeVars /\ UNCHANGED encoderVars /\ UNCHANGED faultVars /\ UNCHANGED displayVars /\ UNCHANGED queueVars /\ UNCHANGED lockVars /\ UNCHANGED dmaVars /\ UNCHANGED hbVars /\ UNCHANGED fwdVars

RbPushN ==
    \E data \in Data :
        LET r == PushN(rb, data) IN
        /\ r.res = "Ok" => Len(pushed) + Len(data) <= MaxPushed
        /\ rb' = r.rb
        /\ pushed' = IF r.res = "Ok" THEN pushed \o data ELSE pushed
        /\ ret' = Call("push_n", Len(data), MaxData, r.res, <<>>)
        /\ UNCHANGED <<popped>> /\ UNCHANGED retryVars /\ UNCHANGED bridgeVars /\ UNCHANGED encoderVars /\ UNCHANGED faultVars /\ UNCHANGED displayVars /\ UNCHANGED queueVars /\ UNCHANGED lockVars /\ UNCHANGED dmaVars /\ UNCHANGED hbVars /\ UNCHANGED fwdVars

RbPop ==
    \E n \in 0..MaxData :
        LET r == Pop(rb, n) IN
        /\ rb' = r.rb
        /\ popped' = popped \o r.out
        /\ ret' = Call("pop", n, 0, "Ok", r.out)
        /\ UNCHANGED <<pushed>> /\ UNCHANGED retryVars /\ UNCHANGED bridgeVars /\ UNCHANGED encoderVars /\ UNCHANGED faultVars /\ UNCHANGED displayVars /\ UNCHANGED queueVars /\ UNCHANGED lockVars /\ UNCHANGED dmaVars /\ UNCHANGED hbVars /\ UNCHANGED fwdVars

RbPopN ==
    \E cnt \in 0..MaxData, N \in 1..RING_BUFFER_LEN :
        LET r == PopN(rb, cnt, N) IN
        /\ rb' = r.rb
        /\ popped' = popped \o r.out
        /\ ret' = Call("pop_n", cnt, N, "Ok", r.out)
        /\ UNCHANGED <<pushed>> /\ UNCHANGED retryVars /\ UNCHANGED bridgeVars /\ UNCHANGED encoderVars /\ UNCHANGED faultVars /\ UNCHANGED displayVars /\ UNCHANGED queueVars /\ UNCHANGED lockVars /\ UNCHANGED dmaVars /\ UNCHANGED hbVars /\ UNCHANGED fwdVars

RbClear ==
    /\ rb' = Clear(rb)
    /\ pushed' = <<>>
    /\ popped' = <<>>
    /\ ret' = Call("clear", rb.count, 0, "Ok", <<>>)
    /\ UNCHANGED retryVars /\ UNCHANGED bridgeVars /\ UNCHANGED encoderVars /\ UNCHANGED faultVars /\ UNCHANGED displayVars /\ UNCHANGED queueVars /\ UNCHANGED lockVars /\ UNCHANGED dmaVars /\ UNCHANGED hbVars /\ UNCHANGED fwdVars

----------------------------------------------------------------------------
(* Error taxonomy, errors.rs and e_macros.rs *)

\* define_peripheral_error_enum! invocations: the variants in declaration order
ErrorVariants ==
    [RingBufferError |-> <<"BufferOverflow", "InsufficientSpace", "BufferEmpty">>,
     LedError |-> <<"SetStateError", "ReadStateError">>,
     UsartError |-> <<"DmaError", "TransferError", "Timeout", "NotInitialized",
                      "BufferOverflow", "FlagNotSet">>,
     UsbError |-> <<"NotInitialized", "ReadError", "WriteError", "BufferOverflow",
                    "InitError", "PollError">>,
     DmaError |-> <<"InitError", "TransferError", "RetryLimitExceeded", "BufferOverflow",
                    "BufferUnderflow", "WriteError", "ReadError">>,
     DeviceError |-> <<"UsbError", "DmaError", "BufferOverflow", "Timeout", "LedError">>]

\* the subsystem taxonomies that convert into DeviceError
SourceDomains == {"UsbError", "DmaError", "UsartError", "LedError", "RingBufferError"}

\* an error value: its enum and its variant
ErrorValues(domain) ==
    {[domain |-> domain, variant |-> ErrorVariants[domain][i]] :
        i \in 1..Len(ErrorVariants[domain])}

\* code(): the variant's ordinal, `$name::$variant as u16`
ErrorCode(e) ==
    (CHOOSE i \in 1..Len(ErrorVariants[e.domain]) :
        ErrorVariants[e.domain][i] = e.variant) - 1

\* mutant of IntoDeviceError: RingBuffer errors keep their own variant position
IntoDeviceErrorByOrdinal(e) ==
    [domain |-> "DeviceError",
     variant |-> CASE e.domain = "UsbError" -> "UsbError"
                   [] e.domain = "DmaError" -> "DmaError"
                   [] e.domain = "UsartError" -> "DmaError"
                   [] e.domain = "LedError" -> "LedError"
                   [] e.domain = "RingBufferError" ->
                          ErrorVariants["DeviceError"][ErrorCode(e) + 1]
                   [] e.domain = "DeviceError" -> e.variant]

\* impl_error_conversion! invocations: From<_> for DeviceError (and T into T)
IntoDeviceError(e) ==
    [domain |-> "DeviceError",
     variant |-> CASE e.domain = "UsbError" -> "UsbError"
                   [] e.domain = "DmaError" -> "DmaError"
                   [] e.domain = "UsartError" -> "DmaError"
                   [] e.domain = "LedError" -> "LedError"
                   [] e.domain = "RingBufferError" -> "BufferOverflow"
                   [] e.domain = "DeviceError" -> e.variant]

MkError(domain, variant) == [domain |-> domain, variant |-> variant]

\* Result values: Ok(val), or Err(err) with the error it was converted from
NoError == MkError("none", "none")

OkVal(n) == [ok |-> TRUE, val |-> n, err |-> NoError, cause |-> NoError]

ErrVal(e) == [ok |-> FALSE, val |-> 0, err |-> e, cause |-> e]

\* Err(DeviceError::from(e)) and `e.into()`
ErrInto(e) == [ok |-> FALSE, val |-> 0, err |-> IntoDeviceError(e), cause |-> e]

----------------------------------------------------------------------------
(* HostBridge: OtgFsController (peripherals/otg_fs.rs) and the handlers of  *)
(* task_handlers/otg_fs.rs                                                  *)

UsbDeviceState == {"Default", "Addressed", "Configured", "Suspend"}

\* the bytes of a ring buffer in the order pop returns them
Contents(b) == Pop(b, RbLen(b)).out

\* OtgFsController::is_configured
IsConfigured(u) == u.state = "Configured"

\* OtgFsController::read. ep_out is the packet waiting in the OUT endpoint
\* (<<>>: none). fault: "error" is a failure of serial.read other than
\* WouldBlock, "zero" a zero-length read, "none" neither.
OtgRead(u, fault) ==
    IF fault = "error"
        THEN [usb |-> u, some |-> FALSE, data |-> <<>>,
              res |-> ErrVal(MkError("UsbError", "ReadError"))]
        ELSE IF u.ep_out = <<>> \/ fault = "zero"
                 THEN [usb |-> u, some |-> FALSE, data |-> <<>>, res |-> OkVal(0)]
                 ELSE [usb |-> [u EXCEPT !.ep_out = <<>>], some |-> TRUE,
                       data |-> u.ep_out, res |-> OkVal(Len(u.ep_out))]

\* mutant of ProcessUsbData: the part of the packet that fits is admitted
ProcessUsbDataTruncate(u, tx, fault) ==
    LET r == OtgRead(u, fault)
        fit == Min(Len(r.data), AvailableSpace(tx))
    IN IF ~r.res.ok
           THEN [usb |-> r.usb, tx |-> tx, res |-> ErrInto(r.res.err)]
           ELSE IF ~r.some
                    THEN [usb |-> r.usb, tx |-> tx, res |-> OkVal(0)]
                    ELSE [usb |-> r.usb,
                          tx |-> Push(tx, SubSeq(r.data, 1, fit)).rb,
                          res |-> IF fit < Len(r.data)
                                      THEN ErrInto(MkError("UsbError", "BufferOverflow"))
                                      ELSE OkVal(fit)]

\* process_usb_data
ProcessUsbData(u, tx, fault) ==
    LET r == OtgRead(u, fault)
        count == r.res.val
        p == Push(tx, SubSeq(r.data, 1, count))
    IN IF ~r.res.ok
           THEN [usb |-> r.usb, tx |-> tx, res |-> ErrInto(r.res.err)]
           ELSE IF ~r.some
                    THEN [usb |-> r.usb, tx |-> tx, res |-> OkVal(0)]
                    ELSE IF AvailableSpace(tx) < count
                             THEN [usb |-> r.usb, tx |-> tx,
                                   res |-> ErrInto(MkError("UsbError", "BufferOverflow"))]
                             ELSE IF p.res # "Ok"
                                      THEN [usb |-> r.usb, tx |-> p.rb,
                                            res |-> ErrInto(MkError("UsbError",
                                                                    "BufferOverflow"))]
                                      ELSE [usb |-> r.usb, tx |-> p.rb, res |-> OkVal(count)]

\* mutant of HandleUsb: the configuration check is missing
HandleUsbNoConfigCheck(u, tx, fault) == ProcessUsbData(u, tx, fault)

\* handle_usb
HandleUsb(u, tx, fault) ==
    IF ~IsConfigured(u)
        THEN [usb |-> u, tx |-> tx, res |-> OkVal(0)]
        ELSE ProcessUsbData(u, tx, fault)

\* OtgFsController::write. accept: the number of bytes the serial port takes;
\* fail: serial.write returns an error
OtgWrite(u, data, fail, accept) ==
    IF Len(data) > DATA_PACKET_SIZE
        THEN ErrVal(MkError("UsbError", "BufferOverflow"))
        ELSE IF fail
                 THEN ErrVal(MkError("UsbError", "WriteError"))
                 ELSE OkVal(Min(accept, Len(data)))

\* mutant of ProcessRxBuffer: the unsent bytes are put back by rewinding the
\* read cursor, that is at the head of the buffer
ProcessRxBufferRewind(u, rx, fail, accept) ==
    LET p == Pop(rx, DATA_PACKET_SIZE)
        bytes_read == Len(p.out)
        w == OtgWrite(u, p.out, fail, accept)
        left == bytes_read - w.val
    IN IF IsEmpty(rx)
           THEN [rx |-> rx, res |-> OkVal(0), staged |-> <<>>, sent |-> <<>>]
           ELSE IF ~w.ok
                    THEN [rx |-> p.rb, res |-> ErrInto(w.err), staged |-> p.out,
                          sent |-> <<>>]
                    ELSE [rx |-> [p.rb EXCEPT
                                     !.read_pos = (p.rb.read_pos - left) % RING_BUFFER_LEN,
                                     !.count = p.rb.count + left],
                          res |-> OkVal(w.val),
                          staged |-> p.out, sent |-> SubSeq(p.out, 1, w.val)]

\* mutant of ProcessRxBuffer: the remainder is taken from the front of the
\* staging buffer instead of from the first unsent byte
ProcessRxBufferWrongSlice(u, rx, fail, accept) ==
    LET p == Pop(rx, DATA_PACKET_SIZE)
        bytes_read == Len(p.out)
        w == OtgWrite(u, p.out, fail, accept)
        q == Push(p.rb, SubSeq(p.out, 1, bytes_read - w.val))
    IN IF IsEmpty(rx)
           THEN [rx |-> rx, res |-> OkVal(0), staged |-> <<>>, sent |-> <<>>]
           ELSE IF ~w.ok
                    THEN [rx |-> p.rb, res |-> ErrInto(w.err), staged |-> p.out,
                          sent |-> <<>>]
                    ELSE [rx |-> q.rb, res |-> OkVal(w.val),
                          staged |-> p.out, sent |-> SubSeq(p.out, 1, w.val)]

\* process_rx_buffer. staged: tx_buffer[..bytes_read]; sent: the bytes the
\* endpoint accepted
ProcessRxBuffer(u, rx, fail, accept) ==
    LET p == Pop(rx, DATA_PACKET_SIZE)
        bytes_read == Len(p.out)
        w == OtgWrite(u, p.out, fail, accept)
        written == w.val
        remaining == SubSeq(p.out, written + 1, bytes_read)
        q == Push(p.rb, remaining)
    IN IF IsEmpty(rx)
           THEN [rx |-> rx, res |-> OkVal(0), staged |-> <<>>, sent |-> <<>>]
           ELSE IF ~w.ok
                    THEN [rx |-> p.rb, res |-> ErrInto(w.err), staged |-> p.out,
                          sent |-> <<>>]
                    ELSE IF written < bytes_read
                             THEN IF q.res # "Ok"
                                      THEN [rx |-> q.rb,
                                            res |-> ErrInto(MkError("UsbError",
                                                                    "BufferOverflow")),
                                            staged |-> p.out, sent |-> SubSeq(p.out, 1, written)]
                                      ELSE [rx |-> q.rb, res |-> OkVal(written),
                                            staged |-> p.out, sent |-> SubSeq(p.out, 1, written)]
                             ELSE [rx |-> p.rb, res |-> OkVal(written),
                                   staged |-> p.out, sent |-> SubSeq(p.out, 1, written)]

\* prepare_tx_data: the bytes copied to buffer[..bytes_processed]
PrepareTxData(tx, bytes_processed) ==
    LET p == PopN(tx, bytes_processed, RING_BUFFER_LEN) IN
    IF bytes_processed > DMA_BUFFER_LEN \/ RbLen(tx) < bytes_processed
        THEN [tx |-> tx, res |-> ErrVal(MkError("DmaError", "BufferUnderflow")),
              data |-> <<>>]
        ELSE [tx |-> p.rb, res |-> OkVal(Len(p.out)), data |-> p.out]

\* store_to_buffer
StoreToBuffer(rx, data) ==
    LET p == Push(rx, data) IN
    IF p.res # "Ok"
        THEN [rx |-> p.rb, res |-> ErrVal(MkError("DmaError", "BufferOverflow"))]
        ELSE [rx |-> p.rb, res |-> OkVal(0)]

----------------------------------------------------------------------------
(* HostBridge calls as actions *)

BridgeCall(op, res, staged, sent) ==
    [op |-> op, res |-> res, staged |-> staged, sent |-> sent]

Packets == SeqsUpTo(Byte, DATA_PACKET_SIZE) \ {<<>>}

\* OtgFsController::poll: usb_dev.poll moves the device state as the host drives it
UsbPoll ==
    \E s \in UsbDeviceState :
        /\ otg_fs' = [otg_fs EXCEPT !.state = s]
        /\ bridge_ret' = BridgeCall("poll", OkVal(0), <<>>, <<>>)
        /\ UNCHANGED <<ring_buffer_tx, ring_buffer_rx>>
        /\ UNCHANGED ringVars /\ UNCHANGED retryVars /\ UNCHANGED encoderVars /\ UNCHANGED faultVars /\ UNCHANGED displayVars /\ UNCHANGED queueVars /\ UNCHANGED lockVars /\ UNCHANGED dmaVars /\ UNCHANGED hbVars /\ UNCHANGED fwdVars

\* the host sends a packet to the configured device's OUT endpoint
HostSendsPacket ==
    \E p \in Packets :
        /\ IsConfigured(otg_fs)
        /\ otg_fs.ep_out = <<>>
        /\ otg_fs' = [otg_fs EXCEPT !.ep_out = p]
        /\ UNCHANGED <<ring_buffer_tx, ring_buffer_rx, bridge_ret>>
        /\ UNCHANGED ringVars /\ UNCHANGED retryVars /\ UNCHANGED encoderVars /\ UNCHANGED faultVars /\ UNCHANGED displayVars /\ UNCHANGED queueVars /\ UNCHANGED lockVars /\ UNCHANGED dmaVars /\ UNCHANGED hbVars /\ UNCHANGED fwdVars

\* a call of handle_usb(usb, tx)
CallHandleUsb ==
    \E fault \in {"none", "zero", "error"} :
        LET r == HandleUsb(otg_fs, ring_buffer_tx, fault) IN
        /\ otg_fs' = r.usb
        /\ ring_buffer_tx' = r.tx
        /\ bridge_ret' = BridgeCall("handle_usb", r.res, <<>>, <<>>)
        /\ UNCHANGED <<ring_buffer_rx>>
        /\ UNCHANGED ringVars /\ UNCHANGED retryVars /\ UNCHANGED encoderVars /\ UNCHANGED faultVars /\ UNCHANGED displayVars /\ UNCHANGED queueVars /\ UNCHANGED lockVars /\ UNCHANGED dmaVars /\ UNCHANGED hbVars /\ UNCHANGED fwdVars

\* handle_dma_tx takes bytes_processed bytes out of the TX ring
CallPrepareTxData ==
    \E n \in 0..(DMA_BUFFER_LEN + 1) :
        LET r == PrepareTxData(ring_buffer_tx, n) IN
        /\ ring_buffer_tx' = r.tx
        /\ bridge_ret' = BridgeCall("prepare_tx_data", r.res, <<>>, <<>>)
        /\ UNCHANGED <<otg_fs, ring_buffer_rx>>
        /\ UNCHANGED ringVars /\ UNCHANGED retryVars /\ UNCHANGED encoderVars /\ UNCHANGED faultVars /\ UNCHANGED displayVars /\ UNCHANGED queueVars /\ UNCHANGED lockVars /\ UNCHANGED dmaVars /\ UNCHANGED hbVars /\ UNCHANGED fwdVars

\* handle_dma_rx stores the bytes received from the wire in the RX ring
CallStoreToBuffer ==
    \E data \in SeqsUpTo(Byte, DMA_BUFFER_LEN) :
        LET r == StoreToBuffer(ring_buffer_rx, data) IN
        /\ ring_buffer_rx' = r.rx
        /\ bridge_ret' = BridgeCall("store_to_buffer", r.res, <<>>, <<>>)
        /\ UNCHANGED <<otg_fs, ring_buffer_tx>>
        /\ UNCHANGED ringVars /\ UNCHANGED retryVars /\ UNCHANGED encoderVars /\ UNCHANGED faultVars /\ UNCHANGED displayVars /\ UNCHANGED queueVars /\ UNCHANGED lockVars /\ UNCHANGED dmaVars /\ UNCHANGED hbVars /\ UNCHANGED fwdVars

\* a call of process_rx_buffer(usb, rx)
CallProcessRxBuffer ==
    \E fail \in BOOLEAN, accept \in 0..DATA_PACKET_SIZE :
        LET r == ProcessRxBuffer(otg_fs, ring_buffer_rx, fail, accept) IN
        /\ ring_buffer_rx' = r.rx
        /\ bridge_ret' = BridgeCall("process_rx_buffer", r.res, r.staged, r.sent)
        /\ UNCHANGED <<otg_fs, ring_buffer_tx>>
        /\ UNCHANGED ringVars /\ UNCHANGED retryVars /\ UNCHANGED encoderVars /\ UNCHANGED faultVars /\ UNCHANGED displayVars /\ UNCHANGED queueVars /\ UNCHANGED lockVars /\ UNCHANGED dmaVars /\ UNCHANGED hbVars /\ UNCHANGED fwdVars

----------------------------------------------------------------------------
(* CodeEncoder, utils/morse.rs. A text is a sequence of the bytes ".", "-" *)
(* and " ".                                                                *)

\* digit_to_morse
DigitToMorse(digit) ==
    CASE digit = 0 -> <<"-", "-", "-", "-", "-">>
      [] digit = 1 -> <<".", "-", "-", "-", "-">>
      [] digit = 2 -> <<".", ".", "-", "-", "-">>
      [] digit = 3 -> <<".", ".", ".", "-", "-">>
      [] digit = 4 -> <<".", ".", ".", ".", "-">>
      [] digit = 5 -> <<".", ".", ".", ".", ".">>
      [] digit = 6 -> <<"-", ".", ".", ".", ".">>
      [] digit = 7 -> <<"-", "-", ".", ".", ".">>
      [] digit = 8 -> <<"-", "-", "-", ".", ".">>
      [] digit = 9 -> <<"-", "-", "-", "-", ".">>
      [] OTHER -> <<>>

\* BufferWriter::new over a buffer of cap bytes; text is buffer[..index]
NewBufferWriter(cap) == [text |-> <<>>, cap |-> cap, ok |-> TRUE, first |-> TRUE]

\* BufferWriter::write_byte
WriteByte(w, byte) ==
    IF Len(w.text) >= w.cap
        THEN [w EXCEPT !.ok = FALSE]
        ELSE [w EXCEPT !.text = Append(@, byte)]

\* mutant of WriteStr: what does not fit is dropped without an error
WriteStrTruncating(w, str) ==
    LET fit == Min(Len(str), w.cap - Len(w.text)) IN
    [w EXCEPT !.text = @ \o SubSeq(str, 1, fit)]

\* BufferWriter::write_str: byte by byte, stopping at the first failure
WriteStr(w, str) ==
    LET fit == Min(Len(str), w.cap - Len(w.text)) IN
    [w EXCEPT !.text = @ \o SubSeq(str, 1, fit), !.ok = (fit = Len(str))]

\* mutant of EncodeDigit: a zero digit is written only in the units place
EncodeDigitSkipZeros(w, num, divisor) ==
    LET digit == (num \div divisor) % 10
        sep == IF w.first THEN w ELSE WriteByte(w, " ")
        str == IF sep.ok THEN WriteStr(sep, DigitToMorse(digit)) ELSE sep
    IN IF ~w.ok
           THEN w
           ELSE IF digit # 0 \/ divisor = 1
                    THEN [str EXCEPT !.first = FALSE]
                    ELSE w

\* one pass of the while loop of number_to_morse; a failed write ends the
\* function (the ? operator), so later passes leave the writer as it is
EncodeDigit(w, num, divisor) ==
    LET digit == (num \div divisor) % 10
        sep == IF w.first THEN w ELSE WriteByte(w, " ")
        str == IF sep.ok THEN WriteStr(sep, DigitToMorse(digit)) ELSE sep
    IN IF ~w.ok
           THEN w
           ELSE IF digit # 0 \/ ~w.first \/ divisor = 1
                    THEN [str EXCEPT !.first = FALSE]
                    ELSE w

\* number_to_morse(number, buffer) with buffer.len() = cap: divisor runs
\* 10000, 1000, 100, 10, 1; Ok(writer.index) or Err("Buffer overflow")
NumberToMorse(num, cap) ==
    LET w == EncodeDigit(EncodeDigit(EncodeDigit(EncodeDigit(EncodeDigit(
                 NewBufferWriter(cap), num, 10000), num, 1000), num, 100), num, 10), num, 1)
    IN [called |-> TRUE, ok |-> w.ok, length |-> IF w.ok THEN Len(w.text) ELSE 0,
        text |-> w.text]

NotEncoded == [called |-> FALSE, ok |-> TRUE, length |-> 0, text |-> <<>>]

\* a call of number_to_morse(number, buffer) with buffer.len() = buffer_len
CallNumberToMorse ==
    /\ ~morse.called
    /\ morse' = NumberToMorse(number, buffer_len)
    /\ UNCHANGED <<number, buffer_len>>
    /\ UNCHANGED ringVars /\ UNCHANGED retryVars /\ UNCHANGED bridgeVars
    /\ UNCHANGED faultVars /\ UNCHANGED displayVars /\ UNCHANGED queueVars /\ UNCHANGED lockVars /\ UNCHANGED dmaVars /\ UNCHANGED hbVars /\ UNCHANGED fwdVars

----------------------------------------------------------------------------
(* FaultCodeQueue and FaultDispatcher: error_queue.rs, error_handlers.rs,  *)
(* handle_error of main.rs                                                  *)

\* heapless::spsc::Queue<u16, N>::capacity: one slot stays free
QueueCapacity == ERROR_QUEUE_LEN - 1

\* mutant of AddErrorCode: a full queue drops its oldest code
AddErrorCodeOverwrite(q, code) ==
    IF Len(q) >= QueueCapacity
        THEN [queue |-> Append(Tail(q), code), ok |-> TRUE]
        ELSE [queue |-> Append(q, code), ok |-> TRUE]

\* add_error_code
AddErrorCode(q, code) ==
    IF Len(q) >= QueueCapacity
        THEN [queue |-> q, ok |-> FALSE]
        ELSE [queue |-> Append(q, code), ok |-> TRUE]

\* get_first_error_code
GetFirstErrorCode(q) ==
    IF q = <<>>
        THEN [queue |-> q, some |-> FALSE, code |-> 0]
        ELSE [queue |-> Tail(q), some |-> TRUE, code |-> Head(q)]

\* has_errors
HasErrors(q) == q # <<>>

\* handle_error(error): the failure of add_error_code is only logged
HandleError(q, error) ==
    LET r == AddErrorCode(q, ErrorCode(error)) IN
    [queue |-> r.queue, enqueued |-> r.ok, code |-> ErrorCode(error)]

FaultCall(op, source, device, code, enqueued) ==
    [op |-> op, source |-> source, device |-> device, code |-> code,
     enqueued |-> enqueued]

\* a handler reports an error of its subsystem: handle_error(e.into())
ReportError ==
    \E domain \in SourceDomains \cup {"DeviceError"} :
        \E e \in ErrorValues(domain) :
            LET r == HandleError(error_queue, IntoDeviceError(e)) IN
            /\ error_queue' = r.queue
            /\ fault_ret' = FaultCall("handle_error", e, IntoDeviceError(e), r.code,
                                      r.enqueued)
            /\ UNCHANGED ringVars /\ UNCHANGED retryVars /\ UNCHANGED bridgeVars
            /\ UNCHANGED encoderVars /\ UNCHANGED displayVars /\ UNCHANGED queueVars /\ UNCHANGED lockVars /\ UNCHANGED dmaVars /\ UNCHANGED hbVars /\ UNCHANGED fwdVars

\* the annunciator takes the oldest code
TakeErrorCode ==
    LET r == GetFirstErrorCode(error_queue) IN
    /\ HasErrors(error_queue)
    /\ error_queue' = r.queue
    /\ fault_ret' = FaultCall("get_first_error_code", NoError, NoError, r.code, FALSE)
    /\ UNCHANGED ringVars /\ UNCHANGED retryVars /\ UNCHANGED bridgeVars
    /\ UNCHANGED encoderVars /\ UNCHANGED displayVars /\ UNCHANGED queueVars /\ UNCHANGED lockVars /\ UNCHANGED dmaVars /\ UNCHANGED hbVars /\ UNCHANGED fwdVars

----------------------------------------------------------------------------
(* FaultAnnunciator: peripherals/red_led.rs, task_handlers/red_led_handler.rs *)

MORSE_DASH_DURATION == MORSE_DOT_DURATION * 3

MORSE_SYMBOL_PAUSE == MORSE_DOT_DURATION

MORSE_WORD_PAUSE == MORSE_DOT_DURATION * 7

\* the clock advances in steps of half a dot
TimeStep == MORSE_DOT_DURATION \div 2

TimeWrap == TimeWrapSteps * TimeStep

\* RedLed::init_off
InitOff ==
    [pin |-> "off", loaded |-> FALSE, morse_sequence |-> <<>>, morse_length |-> 0,
     morse_index |-> 0, morse_state |-> "Idle", last_toggle |-> 0]

\* mutant of StartMorseSequence: the length is that of the array, not of the text
StartMorseSequenceWholeArray(led, code) ==
    LET m == NumberToMorse(code, MAX_MORSE_LENGTH) IN
    IF ~m.ok \/ m.length > MAX_MORSE_LENGTH
        THEN led
        ELSE [led EXCEPT !.loaded = TRUE, !.morse_sequence = m.text,
                         !.morse_length = MAX_MORSE_LENGTH, !.morse_index = 0,
                         !.morse_state = "Idle", !.last_toggle = 0]

\* RedLed::start_morse_sequence(code, buffer)
StartMorseSequence(led, code) ==
    LET m == NumberToMorse(code, MAX_MORSE_LENGTH) IN
    IF ~m.ok \/ m.length > MAX_MORSE_LENGTH
        THEN led
        ELSE [led EXCEPT !.loaded = TRUE, !.morse_sequence = m.text,
                         !.morse_length = m.length, !.morse_index = 0,
                         !.morse_state = "Idle", !.last_toggle = 0]

\* RedLed::reset_morse_state
ResetMorseState(led) ==
    [led EXCEPT !.loaded = FALSE, !.morse_sequence = <<>>, !.morse_length = 0,
                !.morse_index = 0, !.morse_state = "Idle", !.last_toggle = 0]

\* RedLed::current_symbol: the byte at morse_index of the 100-byte array,
\* which is zero ("NUL") behind the text; "None" without a sequence
CurrentSymbol(led) ==
    IF ~led.loaded \/ led.morse_index >= MAX_MORSE_LENGTH
        THEN "None"
        ELSE IF led.morse_index < led.morse_length
                 THEN led.morse_sequence[led.morse_index + 1]
                 ELSE "NUL"

\* mutant of CalculateElapsed: current.saturating_sub(last)
CalculateElapsedSaturating(current, last) ==
    IF current >= last THEN current - last ELSE 0

\* calculate_elapsed: current.wrapping_sub(last)
CalculateElapsed(current, last) == (current - last) % TimeWrap

\* activate_led
ActivateLed(led, timestamp) ==
    [led EXCEPT !.pin = "on", !.morse_state = "Signal", !.last_toggle = timestamp]

\* mutant of DeactivateLed: the pause is entered with the pin left as it is
DeactivateLedKeepLit(led) == [led EXCEPT !.morse_state = "Pause"]

\* deactivate_led
DeactivateLed(led) == [led EXCEPT !.pin = "off", !.morse_state = "Pause"]

\* mutant of AdvanceSequence: the symbol after the next one is taken
AdvanceSequenceSkip(led, timestamp) ==
    [led EXCEPT !.morse_index = @ + 2, !.morse_state = "Idle",
                !.last_toggle = timestamp]

\* advance_sequence
AdvanceSequence(led, timestamp) ==
    [led EXCEPT !.morse_index = @ + 1, !.morse_state = "Idle",
                !.last_toggle = timestamp]

\* start_pause
StartPause(led, timestamp) ==
    [led EXCEPT !.morse_state = "Pause", !.last_toggle = timestamp]

\* handle_invalid_symbol
HandleInvalidSymbol(led) == ResetMorseState(led)

\* process_idle_state
ProcessIdleState(led, current_time) ==
    LET symbol == CurrentSymbol(led) IN
    IF led.morse_index >= led.morse_length
        THEN ResetMorseState(led)
        ELSE IF symbol = "None"
                 THEN led
                 ELSE IF symbol \in {".", "-"}
                          THEN ActivateLed(led, current_time)
                          ELSE IF symbol = " "
                                   THEN StartPause(led, current_time)
                                   ELSE HandleInvalidSymbol(led)

\* mutant of ProcessSignalState: every signal has the length of a dot
ProcessSignalStateDotOnly(led, elapsed) ==
    LET symbol == CurrentSymbol(led) IN
    IF symbol \notin {".", "-"}
        THEN ResetMorseState(led)
        ELSE IF elapsed >= MORSE_DOT_DURATION THEN DeactivateLed(led) ELSE led

\* process_signal_state
ProcessSignalState(led, elapsed) ==
    LET symbol == CurrentSymbol(led)
        duration == IF symbol = "." THEN MORSE_DOT_DURATION ELSE MORSE_DASH_DURATION
    IN IF symbol \notin {".", "-"}
           THEN ResetMorseState(led)
           ELSE IF elapsed >= duration THEN DeactivateLed(led) ELSE led

\* mutant of ProcessPauseState: a gap pauses no longer than a signal does
ProcessPauseStateShortGap(led, elapsed, current_time) ==
    LET symbol == CurrentSymbol(led) IN
    IF symbol \notin {".", "-", " "}
        THEN ResetMorseState(led)
        ELSE IF elapsed >= MORSE_SYMBOL_PAUSE
                 THEN AdvanceSequence(led, current_time)
                 ELSE led

\* process_pause_state
ProcessPauseState(led, elapsed, current_time) ==
    LET symbol == CurrentSymbol(led)
        required_pause == IF symbol = " " THEN MORSE_WORD_PAUSE ELSE MORSE_SYMBOL_PAUSE
    IN IF symbol \notin {".", "-", " "}
           THEN ResetMorseState(led)
           ELSE IF elapsed >= required_pause
                    THEN AdvanceSequence(led, current_time)
                    ELSE led

\* handle_active_sequence
HandleActiveSequence(led, current_time) ==
    LET elapsed == CalculateElapsed(current_time, led.last_toggle) IN
    CASE led.morse_state = "Idle" -> ProcessIdleState(led, current_time)
      [] led.morse_state = "Signal" -> ProcessSignalState(led, elapsed)
      [] led.morse_state = "Pause" -> ProcessPauseState(led, elapsed, current_time)

\* start_new_sequence
StartNewSequence(led, q) ==
    LET r == GetFirstErrorCode(q) IN
    IF r.some
        THEN [led |-> StartMorseSequence(led, r.code), queue |-> r.queue]
        ELSE [led |-> led, queue |-> q]

\* mutant of UpdateRedLed: the next code is fetched as soon as one is queued
UpdateRedLedEager(led, q, current_time) ==
    IF led.loaded /\ ~HasErrors(q)
        THEN [led |-> HandleActiveSequence(led, current_time), queue |-> q]
        ELSE StartNewSequence(led, q)

\* update_red_led
UpdateRedLed(led, q, current_time) ==
    IF led.loaded
        THEN [led |-> HandleActiveSequence(led, current_time), queue |-> q]
        ELSE StartNewSequence(led, q)

----------------------------------------------------------------------------
(* task_display_error_codes and its environment *)

\* the running display task finds the queue empty and awaits the idle delay
DisplayIdle ==
    /\ display.pc = "run"
    /\ ~HasErrors(error_queue)
    /\ display' = [pc |-> "delay", delay_left |-> DISPLAY_IDLE_DELAY, updates |-> 0,
                   ticked |-> FALSE]
    /\ UNCHANGED <<now, red_led, enqueued_log, dequeued_log, shown, dwell>>
    /\ UNCHANGED faultVars
    /\ UNCHANGED ringVars /\ UNCHANGED retryVars /\ UNCHANGED bridgeVars
    /\ UNCHANGED encoderVars /\ UNCHANGED queueVars /\ UNCHANGED lockVars /\ UNCHANGED dmaVars /\ UNCHANGED hbVars /\ UNCHANGED fwdVars

\* Mono::delay expires and the task, of the highest priority, runs again
DisplayWake ==
    /\ display.pc = "delay"
    /\ display.delay_left = 0
    /\ display' = [display EXCEPT !.pc = "run"]
    /\ UNCHANGED <<now, red_led, enqueued_log, dequeued_log, shown, dwell>>
    /\ UNCHANGED faultVars
    /\ UNCHANGED ringVars /\ UNCHANGED retryVars /\ UNCHANGED bridgeVars
    /\ UNCHANGED encoderVars /\ UNCHANGED queueVars /\ UNCHANGED lockVars /\ UNCHANGED dmaVars /\ UNCHANGED hbVars /\ UNCHANGED fwdVars

\* update_red_led at the current time in the branch of the loop taken with a
\* non-empty queue; the loop goes on without awaiting
UpdateStep(from, to) ==
    LET r == UpdateRedLed(red_led, error_queue, now) IN
    /\ display.pc = from
    /\ HasErrors(error_queue)
    /\ red_led' = r.led
    /\ error_queue' = r.queue
    /\ display' = [display EXCEPT !.pc = to, !.updates = Min(@ + 1, 2), !.ticked = FALSE]
    /\ dequeued_log' = IF r.queue # error_queue
                           THEN Append(dequeued_log, Head(error_queue))
                           ELSE dequeued_log
    /\ shown' = IF r.queue # error_queue \/ ~r.led.loaded
                    THEN <<>>
                    ELSE IF red_led.pin = "off" /\ r.led.pin = "on"
                             THEN Append(shown, CurrentSymbol(r.led))
                             ELSE shown
    /\ dwell' = IF <<r.led.loaded, r.led.morse_state, r.led.morse_index>>
                       # <<red_led.loaded, red_led.morse_state, red_led.morse_index>>
                    THEN 0
                    ELSE dwell
    /\ UNCHANGED <<now, enqueued_log, fault_ret>>
    /\ UNCHANGED ringVars /\ UNCHANGED retryVars /\ UNCHANGED bridgeVars
    /\ UNCHANGED encoderVars /\ UNCHANGED queueVars /\ UNCHANGED lockVars /\ UNCHANGED dmaVars /\ UNCHANGED fwdVars

\* one pass of the loop with a non-empty queue: is_red_led_active is set,
\* update_red_led runs and the flag is cleared again, after which the loop
\* starts over without awaiting
DisplayUpdate == UpdateStep("run", "run") /\ UNCHANGED hbVars /\ UNCHANGED fwdVars

\* the SysTick monotonic advances. A pass of the display loop is far shorter
\* than a step of the clock, and an expired delay wakes the task at once: the
\* clock makes at most one step between two passes of the running task and
\* none between the expiry and the wake-up
Tick ==
    /\ IF display.pc = "delay" THEN display.delay_left > 0 ELSE ~display.ticked
    /\ now' = (now + TimeStep) % TimeWrap
    /\ display' = IF display.pc = "delay"
                      THEN [display EXCEPT !.delay_left =
                                               IF @ > TimeStep THEN @ - TimeStep ELSE 0]
                      ELSE [display EXCEPT !.ticked = TRUE]
    /\ dwell' = Min(dwell + TimeStep, TimeWrap)
    /\ UNCHANGED <<red_led, enqueued_log, dequeued_log, shown>>
    /\ UNCHANGED faultVars
    /\ UNCHANGED ringVars /\ UNCHANGED retryVars /\ UNCHANGED bridgeVars
    /\ UNCHANGED encoderVars /\ UNCHANGED queueVars /\ UNCHANGED lockVars /\ UNCHANGED dmaVars /\ UNCHANGED hbVars /\ UNCHANGED fwdVars

\* the faults the handlers report while the display is observed
ReportedErrors ==
    {MkError("DeviceError", "UsbError"), MkError("DeviceError", "DmaError")}

\* a handler of priority 4 or lower calls handle_error(error); it runs only
\* while the display task, of priority 5, is suspended
CallHandleError ==
    \E error \in ReportedErrors :
        LET r == HandleError(error_queue, error) IN
        /\ display.pc = "delay"
        /\ Len(enqueued_log) < MaxFaults
        /\ error_queue' = r.queue
        /\ fault_ret' = FaultCall("handle_error", error, error, r.code, r.enqueued)
        /\ enqueued_log' = IF r.enqueued THEN Append(enqueued_log, r.code)
                                         ELSE enqueued_log
        /\ UNCHANGED <<now, red_led, display, dequeued_log, shown, dwell>>
        /\ UNCHANGED ringVars /\ UNCHANGED retryVars /\ UNCHANGED bridgeVars
        /\ UNCHANGED encoderVars /\ UNCHANGED queueVars /\ UNCHANGED lockVars /\ UNCHANGED dmaVars /\ UNCHANGED hbVars /\ UNCHANGED fwdVars

\* the codes add_error_code is given while the annunciator is observed alone:
\* one of a single digit and one of two digits, which has a gap
AnnunciatorCodes == {4, 10}

\* add_error_code(code), called while the display task is suspended
CallAddErrorCode ==
    \E code \in AnnunciatorCodes :
        LET r == AddErrorCode(error_queue, code) IN
        /\ display.pc = "delay"
        /\ Len(enqueued_log) < MaxFaults
        /\ error_queue' = r.queue
        /\ fault_ret' = FaultCall("add_error_code", NoError, NoError, code, r.ok)
        /\ enqueued_log' = IF r.ok THEN Append(enqueued_log, code) ELSE enqueued_log
        /\ UNCHANGED <<now, red_led, display, dequeued_log, shown, dwell>>
        /\ UNCHANGED ringVars /\ UNCHANGED retryVars /\ UNCHANGED bridgeVars
        /\ UNCHANGED encoderVars /\ UNCHANGED queueVars /\ UNCHANGED lockVars /\ UNCHANGED dmaVars /\ UNCHANGED hbVars /\ UNCHANGED fwdVars

----------------------------------------------------------------------------
(* The fault queue under preemption: each call of error_handlers.rs runs   *)
(* its queue access inside cortex_m::interrupt::free                        *)

\* the priorities of the contexts that call handle_error (heartbeat 1,
\* DMA/USART and forwarding 3, USB 4) and of the display task (5)
ProducerPriorities == {1, 3, 4}

ConsumerPriority == 5

\* mutant of InterruptFree: the closure runs with interrupts as they were
InterruptFreeNoMask(mask) == mask

\* interrupt::free: PRIMASK while the closure runs
InterruptFree(mask) == TRUE

Top == cs_stack[Len(cs_stack)]

AddsInFlight == Len(SelectSeq(cs_stack, LAMBDA f : f.op = "add" /\ f.pc # "exit"))

\* a context starts a queue call: it preempts the running one only with a
\* higher priority and with interrupts enabled
QueueBegin ==
    \E prio \in ProducerPriorities \cup {ConsumerPriority},
       op \in {"add", "get", "has"}, code \in {0, 1} :
        /\ ~primask
        /\ IF cs_stack = <<>> THEN TRUE ELSE prio > Top.prio
        /\ (op = "add") = (prio \in ProducerPriorities)
        /\ op # "add" => code = 0
        /\ op = "add" => Len(enqueued_log) + AddsInFlight < MaxFaults
        /\ cs_stack' = Append(cs_stack, [prio |-> prio, op |-> op, pc |-> "enter",
                                         code |-> code, snap |-> <<>>, saved |-> FALSE])
        /\ UNCHANGED <<primask, enqueued_log, dequeued_log, now, red_led, display, shown, dwell>>
        /\ UNCHANGED faultVars
        /\ UNCHANGED ringVars /\ UNCHANGED retryVars /\ UNCHANGED bridgeVars
        /\ UNCHANGED encoderVars /\ UNCHANGED lockVars /\ UNCHANGED dmaVars /\ UNCHANGED hbVars /\ UNCHANGED fwdVars

SetTop(f) == [cs_stack EXCEPT ![Len(cs_stack)] = f]

\* interrupt::free(|cs| ...): interrupts are disabled
QueueEnter ==
    /\ cs_stack # <<>>
    /\ Top.pc = "enter"
    /\ primask' = InterruptFree(primask)
    /\ cs_stack' = SetTop([Top EXCEPT !.pc = "read", !.saved = primask])
    /\ UNCHANGED <<enqueued_log, dequeued_log, now, red_led, display, shown, dwell>>
    /\ UNCHANGED faultVars
    /\ UNCHANGED ringVars /\ UNCHANGED retryVars /\ UNCHANGED bridgeVars
    /\ UNCHANGED encoderVars /\ UNCHANGED lockVars /\ UNCHANGED dmaVars /\ UNCHANGED hbVars /\ UNCHANGED fwdVars

\* ERROR_QUEUE.borrow(cs).borrow_mut(): the call loads the queue's state
QueueRead ==
    /\ cs_stack # <<>>
    /\ Top.pc = "read"
    /\ cs_stack' = SetTop([Top EXCEPT !.pc = "write", !.snap = error_queue])
    /\ UNCHANGED <<primask, enqueued_log, dequeued_log, now, red_led, display, shown, dwell>>
    /\ UNCHANGED faultVars
    /\ UNCHANGED ringVars /\ UNCHANGED retryVars /\ UNCHANGED bridgeVars
    /\ UNCHANGED encoderVars /\ UNCHANGED lockVars /\ UNCHANGED dmaVars /\ UNCHANGED hbVars /\ UNCHANGED fwdVars

\* queue.enqueue(code) / queue.dequeue() / queue.is_empty() store their result
QueueWrite ==
    LET add == AddErrorCode(Top.snap, Top.code)
        get == GetFirstErrorCode(Top.snap)
    IN /\ cs_stack # <<>>
       /\ Top.pc = "write"
       /\ error_queue' = CASE Top.op = "add" -> add.queue
                           [] Top.op = "get" -> get.queue
                           [] Top.op = "has" -> error_queue
       /\ enqueued_log' = IF Top.op = "add" /\ add.ok
                              THEN Append(enqueued_log, Top.code)
                              ELSE enqueued_log
       /\ dequeued_log' = IF Top.op = "get" /\ get.some
                              THEN Append(dequeued_log, get.code)
                              ELSE dequeued_log
       /\ cs_stack' = SetTop([Top EXCEPT !.pc = "exit"])
       /\ UNCHANGED <<primask, fault_ret, now, red_led, display, shown, dwell>>
       /\ UNCHANGED ringVars /\ UNCHANGED retryVars /\ UNCHANGED bridgeVars
       /\ UNCHANGED encoderVars /\ UNCHANGED lockVars /\ UNCHANGED dmaVars /\ UNCHANGED hbVars /\ UNCHANGED fwdVars

\* the closure returns: PRIMASK is restored and the call ends
QueueExit ==
    /\ cs_stack # <<>>
    /\ Top.pc = "exit"
    /\ primask' = Top.saved
    /\ cs_stack' = SubSeq(cs_stack, 1, Len(cs_stack) - 1)
    /\ UNCHANGED <<enqueued_log, dequeued_log, now, red_led, display, shown, dwell>>
    /\ UNCHANGED faultVars
    /\ UNCHANGED ringVars /\ UNCHANGED retryVars /\ UNCHANGED bridgeVars
    /\ UNCHANGED encoderVars /\ UNCHANGED lockVars /\ UNCHANGED dmaVars /\ UNCHANGED hbVars /\ UNCHANGED fwdVars

----------------------------------------------------------------------------
(* RTIC tasks and their locks on the Shared resources, main.rs *)

Lock(r) == [op |-> "lock", res |-> r]

Unlock(r) == [op |-> "unlock", res |-> r]

\* #[task(..)] attributes and the lock closures of the task bodies; the two
\* branches of the display loop are given as two bodies of the one task
Tasks ==
    [usart6 |->
        [priority |-> 3, shared |-> {"usart_6", "ring_buffer_rx"},
         body |-> <<Lock("usart_6"), Lock("ring_buffer_rx"),
                    Unlock("ring_buffer_rx"), Unlock("usart_6")>>],
     dma2_stream6 |->
        [priority |-> 3, shared |-> {"usart_6"},
         body |-> <<Lock("usart_6"), Unlock("usart_6")>>],
     dma2_stream1 |->
        [priority |-> 3, shared |-> {"usart_6", "ring_buffer_rx"},
         body |-> <<Lock("usart_6"), Lock("ring_buffer_rx"),
                    Unlock("ring_buffer_rx"), Unlock("usart_6")>>],
     otg_fs |->
        [priority |-> 4, shared |-> {"otg_fs", "ring_buffer_tx"},
         body |-> <<Lock("otg_fs"), Lock("ring_buffer_tx"),
                    Unlock("ring_buffer_tx"), Unlock("otg_fs")>>],
     ring_buffer_rx_to_serial |->
        [priority |-> 3, shared |-> {"otg_fs", "ring_buffer_rx"},
         body |-> <<Lock("otg_fs"), Lock("ring_buffer_rx"),
                    Unlock("ring_buffer_rx"), Unlock("otg_fs")>>],
     ring_buffer_tx_to_usart_dma |->
        [priority |-> 3, shared |-> {"usart_6", "ring_buffer_tx"},
         body |-> <<Lock("usart_6"), Lock("ring_buffer_tx"),
                    Unlock("ring_buffer_tx"), Unlock("usart_6")>>],
     blue_led_blink |->
        [priority |-> 1,
         shared |-> {"blue_led", "is_red_led_active", "is_blue_led_blinking"},
         body |-> <<Lock("blue_led"), Lock("is_red_led_active"),
                    Unlock("is_red_led_active"), Lock("is_blue_led_blinking"),
                    Unlock("is_blue_led_blinking"), Unlock("blue_led")>>],
     task_display_error_codes |->
        [priority |-> 5, shared |-> {"red_led", "is_red_led_active"},
         body |-> <<Lock("is_red_led_active"), Unlock("is_red_led_active"),
                    Lock("red_led"), Unlock("red_led"),
                    Lock("is_red_led_active"), Unlock("is_red_led_active")>>],
     task_display_error_codes_idle |->
        [priority |-> 5, shared |-> {"red_led", "is_red_led_active"},
         body |-> <<Lock("is_red_led_active"), Unlock("is_red_led_active")>>]]

TaskNames == DOMAIN Tasks

Resources == UNION {Tasks[t].shared : t \in TaskNames}

SetMax(S) == CHOOSE x \in S : \A y \in S : y <= x

SetMin(S) == CHOOSE x \in S : \A y \in S : x <= y

\* mutant of Ceiling: the lowest priority among the tasks that share r
CeilingLowest(r) == SetMin({Tasks[t].priority : t \in {u \in TaskNames : r \in Tasks[u].shared}})

\* the ceiling RTIC computes for a resource: the highest priority among the
\* tasks that list it in shared = [..]
Ceiling(r) == SetMax({Tasks[t].priority : t \in {u \in TaskNames : r \in Tasks[u].shared}})

\* the priority a dispatched task runs at: its own, raised to the ceiling of
\* every resource it holds (BASEPRI)
FramePriority(f) ==
    SetMax({Tasks[f.task].priority} \cup {Ceiling(f.held[i]) : i \in 1..Len(f.held)})

SystemPriority ==
    SetMax({0} \cup {FramePriority(running[i]) : i \in 1..Len(running)})

RunningTop == running[Len(running)]

\* an interrupt or a spawned task is dispatched: it preempts only with a
\* priority above the one the processor runs at
Dispatch ==
    \E t \in TaskNames :
        /\ \A i \in 1..Len(running) : running[i].task # t
        /\ Tasks[t].priority > SystemPriority
        /\ running' = Append(running, [task |-> t, pc |-> 1, held |-> <<>>])
        /\ UNCHANGED ringVars /\ UNCHANGED retryVars /\ UNCHANGED bridgeVars
        /\ UNCHANGED encoderVars /\ UNCHANGED faultVars /\ UNCHANGED displayVars
        /\ UNCHANGED queueVars /\ UNCHANGED dmaVars /\ UNCHANGED hbVars /\ UNCHANGED fwdVars

\* the running task enters resource.lock(|r| ..): the processor's priority
\* is raised to the ceiling; the call never waits
TaskLock ==
    /\ running # <<>>
    /\ RunningTop.pc <= Len(Tasks[RunningTop.task].body)
    /\ Tasks[RunningTop.task].body[RunningTop.pc].op = "lock"
    /\ running' = [running EXCEPT ![Len(running)] =
                       [@ EXCEPT !.pc = @ + 1,
                                 !.held = Append(@, Tasks[RunningTop.task].body[RunningTop.pc].res)]]
    /\ UNCHANGED ringVars /\ UNCHANGED retryVars /\ UNCHANGED bridgeVars
    /\ UNCHANGED encoderVars /\ UNCHANGED faultVars /\ UNCHANGED displayVars
    /\ UNCHANGED queueVars /\ UNCHANGED dmaVars /\ UNCHANGED hbVars /\ UNCHANGED fwdVars

\* the lock closure returns
TaskUnlock ==
    /\ running # <<>>
    /\ RunningTop.pc <= Len(Tasks[RunningTop.task].body)
    /\ Tasks[RunningTop.task].body[RunningTop.pc].op = "unlock"
    /\ running' = [running EXCEPT ![Len(running)] =
                       [@ EXCEPT !.pc = @ + 1,
                                 !.held = SubSeq(@, 1, Len(@) - 1)]]
    /\ UNCHANGED ringVars /\ UNCHANGED retryVars /\ UNCHANGED bridgeVars
    /\ UNCHANGED encoderVars /\ UNCHANGED faultVars /\ UNCHANGED displayVars
    /\ UNCHANGED queueVars /\ UNCHANGED dmaVars /\ UNCHANGED hbVars /\ UNCHANGED fwdVars

\* the task body returns or awaits
TaskEnd ==
    /\ running # <<>>
    /\ RunningTop.pc > Len(Tasks[RunningTop.task].body)
    /\ running' = SubSeq(running, 1, Len(running) - 1)
    /\ UNCHANGED ringVars /\ UNCHANGED retryVars /\ UNCHANGED bridgeVars
    /\ UNCHANGED encoderVars /\ UNCHANGED faultVars /\ UNCHANGED displayVars
    /\ UNCHANGED queueVars /\ UNCHANGED dmaVars /\ UNCHANGED hbVars /\ UNCHANGED fwdVars

----------------------------------------------------------------------------
(* The DMA data paths of USART6: handle_dma_tx and handle_dma_rx of dma2.rs *)
(* over the buffers and streams of Usart6Controller                         *)

\* the bytes a buffer can hold: data bytes and the initial zero
HwByte == Byte \cup {0}

\* the first n elements of buf replaced by data (copy_from_slice)
CopyInto(buf, data) ==
    [i \in 1..Len(buf) |-> IF i <= Len(data) THEN data[i] ELSE buf[i]]

\* Usart6Controller::get_rx_buffer_slice(length)
GetRxBufferSlice(hw, length) == SubSeq(hw.rx_buffer, 1, Min(length, Len(hw.rx_buffer)))

\* Usart6Controller::get_dma_rx_length: the stream's number_of_transfers
GetDmaRxLength(hw) == hw.rx_ndtr

\* Usart6Controller::clear_dma_tx_complete_flag
ClearDmaTxCompleteFlag(hw) == [hw EXCEPT !.tx_complete = FALSE]

\* Usart6Controller::clear_dma_rx_complete_flag
ClearDmaRxCompleteFlag(hw) == [hw EXCEPT !.rx_complete = FALSE]

\* transfer_to_dma: the data go to tx_buffer[..len], then write_dma, which is
\* restart_dma_tx (dma_tx is Some from init on, so it does not fail)
TransferToDma(u, hw, data) ==
    [usart |-> RestartDmaTx(u),
     hw |-> [hw EXCEPT !.tx_buffer = CopyInto(@, data), !.started = "tx"],
     res |-> OkVal(0)]

\* mutant of HandleDmaTx: only the hardware buffer size is tested, and
\* whatever the ring holds is sent
HandleDmaTxNoLenCheck(u, tx, hw, bytes_processed) ==
    LET p == PopN(tx, bytes_processed, RING_BUFFER_LEN)
        t == TransferToDma(u, hw, p.out)
    IN IF bytes_processed > DMA_BUFFER_LEN
           THEN [usart |-> u, tx |-> tx, hw |-> [hw EXCEPT !.started = "none"],
                 res |-> ErrVal(MkError("DmaError", "BufferUnderflow")), data |-> <<>>]
           ELSE [usart |-> t.usart, tx |-> p.rb, hw |-> ClearDmaTxCompleteFlag(t.hw),
                 res |-> OkVal(0), data |-> p.out]

\* handle_dma_tx
HandleDmaTx(u, tx, hw, bytes_processed) ==
    LET p == PrepareTxData(tx, bytes_processed)
        t == TransferToDma(u, hw, p.data)
    IN IF ~p.res.ok
           THEN [usart |-> u, tx |-> p.tx, hw |-> [hw EXCEPT !.started = "none"],
                 res |-> p.res, data |-> <<>>]
           ELSE [usart |-> t.usart, tx |-> p.tx, hw |-> ClearDmaTxCompleteFlag(t.hw),
                 res |-> OkVal(0), data |-> p.data]

\* read_from_dma: read_dma, which is restart_dma_rx (dma_rx is Some from init
\* on, so neither it nor get_dma_rx_length fails, and rx_buffer is not
\* empty); RXNE is cleared; bytes_received = DMA_BUFFER_LEN - NDTR
ReadFromDma(u, hw) ==
    LET bytes_received == DMA_BUFFER_LEN - GetDmaRxLength(hw) IN
    [usart |-> ClearUsartFlags(RestartDmaRx(u)),
     hw |-> [hw EXCEPT !.started = "rx"],
     res |-> OkVal(bytes_received),
     data |-> GetRxBufferSlice(hw, bytes_received)]

\* mutant of HandleDmaRx: the remaining count is taken for the received one
HandleDmaRxRemaining(u, rx, hw) ==
    LET r == ReadFromDma(u, hw)
        data == GetRxBufferSlice(hw, GetDmaRxLength(hw))
        st == StoreToBuffer(rx, data)
    IN IF ~st.res.ok
           THEN [usart |-> r.usart, rx |-> st.rx, hw |-> r.hw, res |-> st.res,
                 data |-> data]
           ELSE [usart |-> r.usart, rx |-> st.rx, hw |-> ClearDmaRxCompleteFlag(r.hw),
                 res |-> OkVal(0), data |-> data]

\* handle_dma_rx
HandleDmaRx(u, rx, hw) ==
    LET r == ReadFromDma(u, hw)
        st == StoreToBuffer(rx, r.data)
    IN IF ~r.res.ok
           THEN [usart |-> r.usart, rx |-> rx, hw |-> r.hw, res |-> r.res, data |-> <<>>]
           ELSE IF ~st.res.ok
                    THEN [usart |-> r.usart, rx |-> st.rx, hw |-> r.hw, res |-> st.res,
                          data |-> r.data]
                    ELSE [usart |-> r.usart, rx |-> st.rx,
                          hw |-> ClearDmaRxCompleteFlag(r.hw), res |-> OkVal(0),
                          data |-> r.data]

\* process_usb_data's tx.push(&data[..count]): a packet enters the TX ring
CallTxPush ==
    \E data \in Packets :
        /\ AvailableSpace(ring_buffer_tx) >= Len(data)
        /\ ring_buffer_tx' = Push(ring_buffer_tx, data).rb
        /\ bridge_ret' = BridgeCall("push", OkVal(Len(data)), <<>>, <<>>)
        /\ UNCHANGED <<otg_fs, ring_buffer_rx, dma>>
        /\ UNCHANGED ringVars /\ UNCHANGED retryVars /\ UNCHANGED encoderVars
        /\ UNCHANGED faultVars /\ UNCHANGED displayVars /\ UNCHANGED queueVars
        /\ UNCHANGED lockVars /\ UNCHANGED hbVars /\ UNCHANGED fwdVars

\* the requests handle_dma_tx is called with: up to one more than fits
TxRequests == 0..(DMA_BUFFER_LEN + 1)

\* handle_dma_tx(usart, tx, bytes_processed) with bytes_processed = n
HandleDmaTxCall(n) ==
    LET r == HandleDmaTx(usart_6, ring_buffer_tx, dma, n) IN
    /\ usart_6' = r.usart
    /\ ring_buffer_tx' = r.tx
    /\ dma' = r.hw
    /\ bridge_ret' = BridgeCall("handle_dma_tx", r.res, r.data, <<>>)
    /\ UNCHANGED <<otg_fs, ring_buffer_rx, retry_count, fault_log, usart_result>>
    /\ UNCHANGED ringVars /\ UNCHANGED encoderVars
    /\ UNCHANGED faultVars /\ UNCHANGED displayVars /\ UNCHANGED queueVars
    /\ UNCHANGED lockVars /\ UNCHANGED hbVars /\ UNCHANGED fwdVars

\* a call of handle_dma_tx
CallHandleDmaTx == \E n \in TxRequests : HandleDmaTxCall(n)

\* DMA2 stream 6 has sent the buffer: transfer complete, the stream stops
DmaTxComplete ==
    /\ usart_6.dma_tx_enabled
    /\ usart_6' = [usart_6 EXCEPT !.dma_tx_enabled = FALSE]
    /\ dma' = [dma EXCEPT !.tx_complete = TRUE]
    /\ UNCHANGED <<retry_count, fault_log, usart_result>>
    /\ UNCHANGED ringVars /\ UNCHANGED bridgeVars /\ UNCHANGED encoderVars
    /\ UNCHANGED faultVars /\ UNCHANGED displayVars /\ UNCHANGED queueVars
    /\ UNCHANGED lockVars /\ UNCHANGED hbVars /\ UNCHANGED fwdVars

\* DMA2 stream 1 has stored a burst from the wire at the start of rx_buffer;
\* NDTR counts down from DMA_BUFFER_LEN
WireReceives ==
    \E data \in SeqsUpTo(Byte, DMA_BUFFER_LEN) :
        /\ dma' = [dma EXCEPT !.rx_buffer = CopyInto(@, data),
                              !.rx_ndtr = DMA_BUFFER_LEN - Len(data),
                              !.rx_complete = (Len(data) = DMA_BUFFER_LEN)]
        /\ UNCHANGED retryVars
        /\ UNCHANGED ringVars /\ UNCHANGED bridgeVars /\ UNCHANGED encoderVars
        /\ UNCHANGED faultVars /\ UNCHANGED displayVars /\ UNCHANGED queueVars
        /\ UNCHANGED lockVars /\ UNCHANGED hbVars /\ UNCHANGED fwdVars

\* a call of handle_dma_rx(usart, rx)
CallHandleDmaRx ==
    LET r == HandleDmaRx(usart_6, ring_buffer_rx, dma) IN
    /\ usart_6' = r.usart
    /\ ring_buffer_rx' = r.rx
    /\ dma' = r.hw
    /\ bridge_ret' = BridgeCall("handle_dma_rx", r.res, r.data, <<>>)
    /\ UNCHANGED <<otg_fs, ring_buffer_tx, retry_count, fault_log, usart_result>>
    /\ UNCHANGED ringVars /\ UNCHANGED encoderVars
    /\ UNCHANGED faultVars /\ UNCHANGED displayVars /\ UNCHANGED queueVars
    /\ UNCHANGED lockVars /\ UNCHANGED hbVars /\ UNCHANGED fwdVars

----------------------------------------------------------------------------
(* blue_led_blink and the passes of task_display_error_codes, statement by  *)
(* statement                                                                *)

\* Shared::is_blue_led_blinking: set in init and written nowhere
IsBlueLedBlinking == TRUE

\* toggle_led: the pin is high when the LED is off
ToggleLed(led) == IF led = "off" THEN "on" ELSE "off"

\* the display task, of the highest priority, runs unless it awaits its delay;
\* a task of a lower priority runs only then
DisplaySuspended == display.pc = "delay"

\* RTIC dispatches a task only above the priority of the running one
MayRun(task) ==
    IF DisplaySuspended
        THEN TRUE
        ELSE Tasks[task].priority > Tasks["task_display_error_codes"].priority

\* the display loop finds the queue non-empty and sets is_red_led_active
PassBegin ==
    /\ display.pc = "run"
    /\ HasErrors(error_queue)
    /\ is_red_led_active' = TRUE
    /\ display' = [display EXCEPT !.pc = "active"]
    /\ UNCHANGED <<blue_led, heartbeat>>
    /\ UNCHANGED <<now, red_led, enqueued_log, dequeued_log, shown, dwell>>
    /\ UNCHANGED faultVars
    /\ UNCHANGED ringVars /\ UNCHANGED retryVars /\ UNCHANGED bridgeVars
    /\ UNCHANGED encoderVars /\ UNCHANGED queueVars /\ UNCHANGED lockVars /\ UNCHANGED dmaVars /\ UNCHANGED fwdVars

\* update_red_led under the lock of red_led
PassUpdate == UpdateStep("active", "updated") /\ UNCHANGED hbVars /\ UNCHANGED fwdVars

\* the pass clears is_red_led_active and the loop starts over
PassEnd ==
    /\ display.pc = "updated"
    /\ is_red_led_active' = FALSE
    /\ display' = [display EXCEPT !.pc = "run"]
    /\ UNCHANGED <<blue_led, heartbeat>>
    /\ UNCHANGED <<now, red_led, enqueued_log, dequeued_log, shown, dwell>>
    /\ UNCHANGED faultVars
    /\ UNCHANGED ringVars /\ UNCHANGED retryVars /\ UNCHANGED bridgeVars
    /\ UNCHANGED encoderVars /\ UNCHANGED queueVars /\ UNCHANGED lockVars /\ UNCHANGED dmaVars /\ UNCHANGED fwdVars

\* the delay of blue_led_blink expires
HeartbeatWake ==
    /\ heartbeat.pc = "delay"
    /\ heartbeat' = [heartbeat EXCEPT !.pc = "ready"]
    /\ UNCHANGED <<is_red_led_active, blue_led>>
    /\ UNCHANGED displayVars /\ UNCHANGED faultVars
    /\ UNCHANGED ringVars /\ UNCHANGED retryVars /\ UNCHANGED bridgeVars
    /\ UNCHANGED encoderVars /\ UNCHANGED queueVars /\ UNCHANGED lockVars /\ UNCHANGED dmaVars /\ UNCHANGED fwdVars

\* one pass of the loop of blue_led_blink, up to its delay
HeartbeatRun ==
    /\ heartbeat.pc = "ready"
    /\ MayRun("blue_led_blink")
    /\ blue_led' = IF is_red_led_active
                       THEN "off"
                       ELSE IF IsBlueLedBlinking THEN ToggleLed(blue_led) ELSE "off"
    /\ heartbeat' = [pc |-> "delay", ran |-> TRUE, observed |-> is_red_led_active]
    /\ UNCHANGED is_red_led_active
    /\ UNCHANGED displayVars /\ UNCHANGED faultVars
    /\ UNCHANGED ringVars /\ UNCHANGED retryVars /\ UNCHANGED bridgeVars
    /\ UNCHANGED encoderVars /\ UNCHANGED queueVars /\ UNCHANGED lockVars /\ UNCHANGED dmaVars /\ UNCHANGED fwdVars

----------------------------------------------------------------------------
(* The forwarding paths composed: the tasks of main.rs that move bytes      *)
(* between USB and USART6, with the spawning of the two software tasks      *)

TaskIdle == [state |-> "idle", arg |-> 0]

\* mutant of Spawn: a spawn of a task that is still spawned adds its argument
SpawnAccumulate(task, arg) ==
    IF task.state = "idle"
        THEN [state |-> "spawned", arg |-> arg]
        ELSE [state |-> "spawned", arg |-> task.arg + arg]

\* task::spawn(arg).ok(): a task that is spawned and has not finished cannot
\* be spawned again; the rejection is dropped
Spawn(task, arg) ==
    IF task.state = "idle" THEN [state |-> "spawned", arg |-> arg] ELSE task

\* handle_error(e.into()) on Err(e): the queue and the record of the call
AfterResult(res) ==
    LET h == HandleError(error_queue, IntoDeviceError(res.err)) IN
    IF res.ok
        THEN <<error_queue, fault_ret>>
        ELSE <<h.queue, FaultCall("handle_error", res.err, IntoDeviceError(res.err),
                                  h.code, h.enqueued)>>

\* the host sends a packet of 1 to DATA_PACKET_SIZE bytes, the bytes all alike:
\* the composed paths are followed by the lengths of the packets
HostSendsLength ==
    \E k \in 1..DATA_PACKET_SIZE :
        /\ IsConfigured(otg_fs)
        /\ otg_fs.ep_out = <<>>
        /\ otg_fs' = [otg_fs EXCEPT !.ep_out = [i \in 1..k |-> 1]]
        /\ UNCHANGED <<ring_buffer_tx, ring_buffer_rx, bridge_ret>>
        /\ UNCHANGED ringVars /\ UNCHANGED retryVars /\ UNCHANGED encoderVars
        /\ UNCHANGED faultVars /\ UNCHANGED displayVars /\ UNCHANGED queueVars
        /\ UNCHANGED lockVars /\ UNCHANGED dmaVars /\ UNCHANGED hbVars
        /\ UNCHANGED <<tx_task, rx_task>>

\* the OTG_FS interrupt task: poll, handle_usb under the lock of the TX ring,
\* and the spawn of the forwarding task for the bytes admitted
OtgFsTask ==
    \E s \in UsbDeviceState, fault \in {"none", "zero", "error"} :
        LET r == HandleUsb([otg_fs EXCEPT !.state = s], ring_buffer_tx, fault)
            bytes_processed == r.res.val
        IN /\ otg_fs' = r.usb
           /\ ring_buffer_tx' = r.tx
           /\ tx_task' = IF r.res.ok /\ bytes_processed > 0
                             THEN Spawn(tx_task, bytes_processed)
                             ELSE tx_task
           /\ error_queue' = AfterResult(r.res)[1]
           /\ fault_ret' = AfterResult(r.res)[2]
           /\ UNCHANGED <<ring_buffer_rx, rx_task, bridge_ret>>
           /\ UNCHANGED ringVars /\ UNCHANGED retryVars /\ UNCHANGED encoderVars
           /\ UNCHANGED displayVars /\ UNCHANGED queueVars /\ UNCHANGED lockVars
           /\ UNCHANGED <<dma, is_red_led_active, blue_led, heartbeat>>

\* the task ring_buffer_tx_to_usart_dma(bytes_processed) runs to its end
TxTaskRun ==
    LET r == HandleDmaTx(usart_6, ring_buffer_tx, dma, tx_task.arg) IN
    /\ tx_task.state = "spawned"
    /\ usart_6' = r.usart
    /\ ring_buffer_tx' = r.tx
    /\ dma' = r.hw
    /\ tx_task' = TaskIdle
    /\ error_queue' = AfterResult(r.res)[1]
    /\ fault_ret' = AfterResult(r.res)[2]
    /\ bridge_ret' = BridgeCall("ring_buffer_tx_to_usart_dma", r.res, <<>>, <<>>)
    /\ UNCHANGED <<otg_fs, ring_buffer_rx, rx_task>>
    /\ UNCHANGED <<retry_count, fault_log, usart_result>>
    /\ UNCHANGED ringVars /\ UNCHANGED encoderVars
    /\ UNCHANGED displayVars /\ UNCHANGED queueVars /\ UNCHANGED lockVars
    /\ UNCHANGED <<is_red_led_active, blue_led, heartbeat>>

\* the DMA2_STREAM6 interrupt task: the transfer-complete flag is cleared
Dma2Stream6Task ==
    /\ dma.tx_complete
    /\ dma' = ClearDmaTxCompleteFlag(dma)
    /\ UNCHANGED retryVars
    /\ UNCHANGED ringVars /\ UNCHANGED bridgeVars /\ UNCHANGED encoderVars
    /\ UNCHANGED faultVars /\ UNCHANGED displayVars /\ UNCHANGED queueVars
    /\ UNCHANGED lockVars /\ UNCHANGED hbVars /\ UNCHANGED <<tx_task, rx_task>>

\* the DMA2_STREAM1 interrupt task, raised by the transfer-complete flag:
\* handle_dma_rx, and the spawn of the task that drains the RX ring
Dma2Stream1Task ==
    LET r == HandleDmaRx(usart_6, ring_buffer_rx, dma) IN
    /\ dma.rx_complete
    /\ usart_6' = r.usart
    /\ ring_buffer_rx' = r.rx
    /\ dma' = r.hw
    /\ rx_task' = Spawn(rx_task, 0)
    /\ error_queue' = AfterResult(r.res)[1]
    /\ fault_ret' = AfterResult(r.res)[2]
    /\ bridge_ret' = BridgeCall("dma2_stream1", r.res, r.data, <<>>)
    /\ UNCHANGED <<otg_fs, ring_buffer_tx, tx_task>>
    /\ UNCHANGED <<retry_count, fault_log, usart_result>>
    /\ UNCHANGED ringVars /\ UNCHANGED encoderVars
    /\ UNCHANGED displayVars /\ UNCHANGED queueVars /\ UNCHANGED lockVars
    /\ UNCHANGED <<is_red_led_active, blue_led, heartbeat>>

\* the task ring_buffer_rx_to_serial runs to its end: one process_rx_buffer
RxTaskRun ==
    \E fail \in BOOLEAN, accept \in 0..DATA_PACKET_SIZE :
        LET r == ProcessRxBuffer(otg_fs, ring_buffer_rx, fail, accept) IN
        /\ rx_task.state = "spawned"
        /\ ring_buffer_rx' = r.rx
        /\ rx_task' = TaskIdle
        /\ error_queue' = AfterResult(r.res)[1]
        /\ fault_ret' = AfterResult(r.res)[2]
        /\ bridge_ret' = BridgeCall("ring_buffer_rx_to_serial", r.res, r.staged, r.sent)
        /\ UNCHANGED <<otg_fs, ring_buffer_tx, tx_task>>
        /\ UNCHANGED ringVars /\ UNCHANGED retryVars /\ UNCHANGED encoderVars
        /\ UNCHANGED displayVars /\ UNCHANGED queueVars /\ UNCHANGED lockVars
        /\ UNCHANGED <<dma, is_red_led_active, blue_led, heartbeat>>

----------------------------------------------------------------------------
(* update_red_led over every code: the annunciator alone, called at times  *)
(* one word pause apart, at which every phase ends at the first call       *)

\* add_error_code(number) on the empty queue
ReportCode ==
    LET r == AddErrorCode(error_queue, number) IN
    /\ ~red_led.loaded
    /\ ~HasErrors(error_queue)
    /\ fault_ret.op = "init"
    /\ error_queue' = r.queue
    /\ fault_ret' = FaultCall("add_error_code", NoError, NoError, number, r.ok)
    /\ UNCHANGED displayVars
    /\ UNCHANGED ringVars /\ UNCHANGED retryVars /\ UNCHANGED bridgeVars
    /\ UNCHANGED encoderVars /\ UNCHANGED queueVars /\ UNCHANGED lockVars
    /\ UNCHANGED dmaVars /\ UNCHANGED hbVars /\ UNCHANGED fwdVars

\* update_red_led(led, current_time, buffer), current_time a word pause after
\* the time of the call before
UpdateCall ==
    LET current_time == (now + MORSE_WORD_PAUSE) % TimeWrap
        r == UpdateRedLed(red_led, error_queue, current_time)
    IN /\ red_led.loaded \/ HasErrors(error_queue)
       /\ now' = current_time
       /\ red_led' = r.led
       /\ error_queue' = r.queue
       /\ UNCHANGED <<display, enqueued_log, dequeued_log, shown, dwell, fault_ret>>
       /\ UNCHANGED ringVars /\ UNCHANGED retryVars /\ UNCHANGED bridgeVars
       /\ UNCHANGED encoderVars /\ UNCHANGED queueVars /\ UNCHANGED lockVars
       /\ UNCHANGED dmaVars /\ UNCHANGED hbVars /\ UNCHANGED fwdVars

----------------------------------------------------------------------------
(* Initial state: RingBuffer::new, init() of main.rs *)

InitFirmware ==
    /\ rb = NewRingBuffer
    /\ pushed = <<>>
    /\ popped = <<>>
    /\ ret = Call("new", 0, 0, "Ok", <<>>)
    /\ usart_6 = [dma_rx_error |-> FALSE, dma_tx_error |-> FALSE,
                  dma_rx_enabled |-> FALSE, dma_tx_enabled |-> TRUE, rxne |-> FALSE]
    /\ retry_count = 0
    /\ fault_log = <<>>
    /\ usart_result = "none"
    /\ otg_fs = [state |-> "Default", ep_out |-> <<>>]
    /\ ring_buffer_tx = NewRingBuffer
    /\ ring_buffer_rx = NewRingBuffer
    /\ bridge_ret = BridgeCall("init", OkVal(0), <<>>, <<>>)
    /\ error_queue = <<>>
    /\ fault_ret = FaultCall("init", NoError, NoError, 0, FALSE)
    /\ now = 0
    /\ red_led = InitOff
    /\ display = [pc |-> "run", delay_left |-> 0, updates |-> 0, ticked |-> FALSE]
    /\ enqueued_log = <<>>
    /\ dequeued_log = <<>>
    /\ shown = <<>>
    /\ dwell = 0
    /\ cs_stack = <<>>
    /\ primask = FALSE
    /\ running = <<>>
    /\ is_red_led_active = FALSE
    /\ blue_led = "off"
    /\ heartbeat = [pc |-> "ready", ran |-> FALSE, observed |-> FALSE]
    /\ tx_task = TaskIdle
    /\ rx_task = TaskIdle
    /\ dma = [tx_buffer |-> [i \in 1..DMA_BUFFER_LEN |-> 0],
              rx_buffer |-> [i \in 1..DMA_BUFFER_LEN |-> 0],
              rx_ndtr |-> DMA_BUFFER_LEN, tx_complete |-> FALSE,
              rx_complete |-> FALSE, started |-> "tx"]

Init ==
    /\ InitFirmware
    /\ number = 0
    /\ buffer_len = MAX_MORSE_LENGTH
    /\ morse = NotEncoded

\* number_to_morse is a function of its argument alone: every u16 is tried
InitEncoder ==
    /\ InitFirmware
    /\ number \in 0..U16_MAX
    /\ buffer_len = MAX_MORSE_LENGTH
    /\ morse = NotEncoded

\* the buffers number_to_morse is given: every length up to MaxDestination,
\* and the task's own buffer
DestinationLengths == (0..MaxDestination) \cup {MAX_MORSE_LENGTH}

InitDestination ==
    /\ InitFirmware
    /\ number \in 0..U16_MAX
    /\ buffer_len \in DestinationLengths
    /\ morse = NotEncoded

NextRing == RbPush \/ RbPushN \/ RbPop \/ RbPopN \/ RbClear

SpecRing == Init /\ [][NextRing]_vars

NextRetry == DmaRxFault \/ DmaTxFault \/ UsartRxne \/ Usart6HandleUsartError

SpecRetry == Init /\ [][NextRetry]_vars

\* USB -> TX ring -> DMA
NextUsbIn == UsbPoll \/ HostSendsPacket \/ CallHandleUsb \/ CallPrepareTxData

SpecUsbIn == Init /\ [][NextUsbIn]_vars

\* wire -> RX ring -> USB
NextUsbOut == CallStoreToBuffer \/ CallProcessRxBuffer

SpecUsbOut == Init /\ [][NextUsbOut]_vars

\* fault reports and their consumer
NextFault == ReportError \/ TakeErrorCode

SpecFault == Init /\ [][NextFault]_vars

\* the display task, the clock and the handlers that report faults
DisplayStep == DisplayIdle \/ DisplayWake \/ DisplayUpdate

NextDisplay == DisplayStep \/ Tick \/ CallHandleError

\* the display task has the highest priority and the clock keeps running: each
\* takes its step when it can
SpecDisplay ==
    Init /\ [][NextDisplay]_vars /\ WF_vars(DisplayStep) /\ WF_vars(Tick)

\* fault-queue calls of contexts that preempt each other
NextQueue == QueueBegin \/ QueueEnter \/ QueueRead \/ QueueWrite \/ QueueExit

SpecQueue == Init /\ [][NextQueue]_vars

\* task dispatch and resource locks
NextLocks == Dispatch \/ TaskLock \/ TaskUnlock \/ TaskEnd

SpecLocks == Init /\ [][NextLocks]_vars

\* TX ring -> DMA2 stream 6
NextDmaTx == CallTxPush \/ CallHandleDmaTx \/ DmaTxComplete \/ DmaTxFault

SpecDmaTx == Init /\ [][NextDmaTx]_vars

\* DMA2 stream 1 -> RX ring -> USB
NextDmaRx == WireReceives \/ DmaRxFault \/ CallHandleDmaRx \/ CallProcessRxBuffer

SpecDmaRx == Init /\ [][NextDmaRx]_vars

\* the annunciator with codes of more than one digit
NextAnnunciator == DisplayIdle \/ DisplayWake \/ DisplayUpdate \/ Tick \/ CallAddErrorCode

SpecAnnunciator == Init /\ [][NextAnnunciator]_vars

\* the heartbeat beside the display task, its clock and the fault handlers
NextHeartbeat ==
    \/ DisplayIdle \/ DisplayWake \/ PassBegin \/ PassUpdate \/ PassEnd
    \/ Tick \/ CallHandleError \/ HeartbeatWake \/ HeartbeatRun

SpecHeartbeat == Init /\ [][NextHeartbeat]_vars

\* USB -> TX ring -> DMA2 stream 6, with the tasks' spawning
NextForwardTx ==
    HostSendsLength \/ OtgFsTask \/ TxTaskRun \/ DmaTxComplete \/ Dma2Stream6Task

SpecForwardTx == Init /\ [][NextForwardTx]_vars

\* wire -> DMA2 stream 1 -> RX ring -> USB, with the tasks' spawning
NextForwardRx == WireReceives \/ Dma2Stream1Task \/ RxTaskRun

SpecForwardRx == Init /\ [][NextForwardRx]_vars

\* the annunciator given each u16 in turn
NextSymbols == ReportCode \/ UpdateCall

SpecSymbols == InitEncoder /\ [][NextSymbols]_vars

NextEncoder == CallNumberToMorse

SpecDestination == InitDestination /\ [][NextEncoder]_vars

SpecEncoder == InitEncoder /\ [][NextEncoder]_vars

----------------------------------------------------------------------------
(* Properties of the RingBuffer, checked under SpecRing *)

\* C1: FIFO order. The concatenation of the bytes returned by pop and pop_n is
\* a prefix of the concatenation of the bytes admitted by push and push_n, in
\* push order, also when the cursors have wrapped around.
FifoOrder == IsPrefix(popped, pushed)

\* more bytes than the capacity went through, of both values, and the read
\* cursor wrapped
FifoOrderWitness ==
    /\ Len(popped) > RING_BUFFER_LEN
    /\ {popped[i] : i \in 1..Len(popped)} = Byte
    /\ ret.op \in {"pop", "pop_n"}
    /\ Len(ret.out) > 1
    /\ rb.read_pos < Len(ret.out)

\* C2: push atomicity. A push of more bytes than available_space() returns
\* BufferOverflow and leaves count, write_pos, read_pos and the stored bytes
\* as they were: nothing is admitted.
PushAtomic ==
    [][(ret'.op \in {"push", "push_n"} /\ ret'.n > AvailableSpace(rb))
          => /\ ret'.res = "BufferOverflow"
             /\ rb' = rb
             /\ pushed' = pushed]_vars

\* a slice longer than the whole capacity was refused by a buffer holding data
PushAtomicWitness ==
    /\ ret.op = "push"
    /\ ret.res = "BufferOverflow"
    /\ ret.n > RING_BUFFER_LEN
    /\ rb.count > 0

\* C3: accounting. len() is the number of bytes admitted by successful pushes
\* minus the number of bytes returned by pops, and available_space() is the
\* capacity minus len().
Accounting ==
    /\ RbLen(rb) = Len(pushed) - Len(popped)
    /\ AvailableSpace(rb) = RING_BUFFER_LEN - RbLen(rb)

AccountingWitness ==
    /\ Len(pushed) > RING_BUFFER_LEN
    /\ Len(popped) > 0
    /\ RbLen(rb) > 0
    /\ rb.write_pos <= rb.read_pos

\* C4: representation invariant. count is within 0..capacity, both cursors
\* are within [0, capacity), and write_pos = (read_pos + count) mod capacity.
RepInvariant ==
    /\ rb.count \in 0..RING_BUFFER_LEN
    /\ rb.read_pos \in Slots
    /\ rb.write_pos \in Slots
    /\ rb.write_pos = (rb.read_pos + rb.count) % RING_BUFFER_LEN

\* a full buffer whose content wraps around the end of the array
RepInvariantWitness ==
    /\ rb.count = RING_BUFFER_LEN
    /\ rb.read_pos > 0
    /\ rb.write_pos = rb.read_pos

\* C5: clear. After clear() the buffer is empty, all of the capacity is
\* available, both cursors are 0 and every backing byte is 0; clearing again
\* gives the same state.
ClearResets ==
    ret.op = "clear"
        => /\ IsEmpty(rb)
           /\ AvailableSpace(rb) = RING_BUFFER_LEN
           /\ rb.read_pos = 0
           /\ rb.write_pos = 0
           /\ \A i \in Slots : rb.buffer[i] = 0
           /\ Clear(rb) = rb

\* clear() of a buffer that held data (ret.n is the count before the call)
ClearResetsWitness ==
    /\ ret.op = "clear"
    /\ ret.n > 0

\* C6: pop(output) returns exactly min(output.len(), count) bytes, the oldest
\* ones in FIFO order, and takes exactly those out; when that number is 0
\* (empty buffer or zero-length output) count and both cursors stay as they
\* were.
PopExact ==
    [][ret'.op = "pop"
          => LET k == Min(ret'.n, rb.count) IN
             /\ ret'.res = "Ok"
             /\ ret'.out = SubSeq(pushed, Len(popped) + 1, Len(popped) + k)
             /\ rb'.count = rb.count - k
             /\ k = 0 => /\ rb'.count = rb.count
                         /\ rb'.read_pos = rb.read_pos
                         /\ rb'.write_pos = rb.write_pos]_vars

\* a pop into a non-empty output on a buffer that was drained before
PopExactWitness ==
    /\ ret.op = "pop"
    /\ ret.n > 0
    /\ ret.out = <<>>
    /\ Len(popped) > 0
    /\ rb.read_pos > 0

\* C7: pop_n::<N>(n) returns exactly min(n, count, N) bytes, the oldest ones
\* in FIFO order, and count drops by exactly the number of bytes returned: a
\* request for more than is buffered is truncated, and no byte leaves the
\* buffer without being returned.
PopNExact ==
    [][ret'.op = "pop_n"
          => LET k == Min(Min(ret'.n, rb.count), ret'.cap) IN
             /\ ret'.out = SubSeq(pushed, Len(popped) + 1, Len(popped) + k)
             /\ Len(ret'.out) = k
             /\ rb'.count = rb.count - Len(ret'.out)]_vars

\* a request for more bytes than were buffered, served with what there was
PopNExactWitness ==
    /\ ret.op = "pop_n"
    /\ Len(ret.out) > 1
    /\ ret.n > Len(ret.out)
    /\ ret.cap > Len(ret.out)
    /\ rb.count = 0

----------------------------------------------------------------------------
(* Properties of the retry logic, checked under SpecRetry *)

\* the handled faults, in order (the checks that found no fault left out)
Faults == SelectSeq(fault_log, LAMBDA e : e.dir # "none")

\* C8: retry cap. Counting detected faults from counter 0, the first three
\* are handled by restarting the transfer and return Ok with the counter at
\* 1, 2, 3; the fourth returns RetryLimitExceeded and sets the counter to 0;
\* the fault after that starts again at 1 with Ok. Between calls the counter
\* is within 0..3.
RetryCap ==
    /\ retry_count \in 0..MAX_RETRY_COUNT
    /\ retry_count = Len(Faults) % (MAX_RETRY_COUNT + 1)
    /\ \A i \in 1..Len(Faults) :
          /\ Faults[i].count = i % (MAX_RETRY_COUNT + 1)
          /\ Faults[i].res = IF i % (MAX_RETRY_COUNT + 1) = 0
                                 THEN "RetryLimitExceeded" ELSE "Ok"
          /\ Faults[i].restarted <=> Faults[i].res = "Ok"

\* five faults seen: three retried, the fourth refused, the fifth retried
RetryCapWitness ==
    /\ Len(Faults) >= 5
    /\ Faults[3].res = "Ok" /\ Faults[3].count = 3
    /\ Faults[4].res = "RetryLimitExceeded" /\ Faults[4].count = 0
    /\ Faults[5].res = "Ok" /\ Faults[5].count = 1
    /\ retry_count = 1

\* the faults of entry i's direction handled up to i, since that direction's
\* last RetryLimitExceeded
SameDirectionRun(i) ==
    {j \in 1..i :
        /\ Faults[j].dir = Faults[i].dir
        /\ \A k \in j..(i - 1) :
              ~(Faults[k].dir = Faults[i].dir /\ Faults[k].res = "RetryLimitExceeded")}

\* C9: the retry counters are independent per direction. RetryLimitExceeded
\* is returned for a direction only on that direction's own fourth fault; RX
\* faults do not use up the TX allowance, nor TX faults the RX allowance.
IndependentCounters ==
    \A i \in 1..Len(Faults) :
        Faults[i].res = "RetryLimitExceeded"
            => Cardinality(SameDirectionRun(i)) > MAX_RETRY_COUNT

\* C10: the counter counts consecutive faults only. RetryLimitExceeded is
\* returned only when the fault and the three checks before it all found a
\* fault; a check that finds no fault starts the allowance afresh.
ConsecutiveOnly ==
    \A i \in 1..Len(fault_log) :
        fault_log[i].res = "RetryLimitExceeded"
            => /\ i > MAX_RETRY_COUNT
               /\ \A j \in (i - MAX_RETRY_COUNT)..i : fault_log[j].dir # "none"

----------------------------------------------------------------------------
(* Claims about the HostBridge *)

ReadFailed == bridge_ret'.res.cause = MkError("UsbError", "ReadError")

\* C11: a handle_usb call that reads a packet of n bytes from the endpoint
\* admits it whole or not at all: with fewer than n free bytes in the TX ring
\* it fails with the device-level form of UsbError::BufferOverflow and the ring
\* is unchanged; otherwise the n bytes are appended in order and n is returned
WholePacketAdmission ==
    [][(/\ bridge_ret'.op = "handle_usb"
        /\ IsConfigured(otg_fs)
        /\ otg_fs.ep_out # <<>>
        /\ otg_fs'.ep_out = <<>>)
       => IF AvailableSpace(ring_buffer_tx) < Len(otg_fs.ep_out)
              THEN /\ ~bridge_ret'.res.ok
                   /\ bridge_ret'.res.cause = MkError("UsbError", "BufferOverflow")
                   /\ bridge_ret'.res.err.domain = "DeviceError"
                   /\ ring_buffer_tx' = ring_buffer_tx
              ELSE /\ bridge_ret'.res = OkVal(Len(otg_fs.ep_out))
                   /\ Contents(ring_buffer_tx') =
                          Contents(ring_buffer_tx) \o otg_fs.ep_out]_vars

\* a packet longer than the free space of a partly filled, not full TX ring
\* was rejected
WholePacketAdmissionWitness ==
    /\ bridge_ret.op = "handle_usb"
    /\ bridge_ret.res.cause = MkError("UsbError", "BufferOverflow")
    /\ RbLen(ring_buffer_tx) > 0
    /\ AvailableSpace(ring_buffer_tx) > 0

\* C12: handle_usb returns Ok(0) and leaves the TX ring unchanged when the
\* device is not Configured, in which case the endpoint is not read, and when
\* the endpoint has no data (zero-length read or would-block)
HandleUsbNoOp ==
    [][(bridge_ret'.op = "handle_usb")
       => /\ ~IsConfigured(otg_fs)
              => /\ bridge_ret'.res = OkVal(0)
                 /\ ring_buffer_tx' = ring_buffer_tx
                 /\ otg_fs' = otg_fs
          /\ (IsConfigured(otg_fs) /\ ~ReadFailed /\ otg_fs' = otg_fs)
              => /\ bridge_ret'.res = OkVal(0)
                 /\ ring_buffer_tx' = ring_buffer_tx]_vars

\* handle_usb returned Ok(0) on a device that is not configured while a packet
\* waits in its endpoint
HandleUsbNoOpWitness ==
    /\ bridge_ret.op = "handle_usb"
    /\ bridge_ret.res = OkVal(0)
    /\ ~IsConfigured(otg_fs)
    /\ otg_fs.ep_out # <<>>

\* s is a contiguous run of t
IsRun(s, t) ==
    \E i \in 0..(Len(t) - Len(s)) : SubSeq(t, i + 1, i + Len(s)) = s

WriteFailed == bridge_ret'.res.cause = MkError("UsbError", "WriteError")

\* C13: when process_rx_buffer stages s bytes and the endpoint accepts w of
\* them, the call returns Ok(w), the accepted bytes are the first w staged
\* ones, the s - w unsent bytes are in the RX ring again in their original
\* relative order, the ring holds w bytes fewer than before, and the
\* re-enqueue does not fail
PartialWrite ==
    [][(bridge_ret'.op = "process_rx_buffer" /\ ~IsEmpty(ring_buffer_rx) /\ ~WriteFailed)
       => LET before == Contents(ring_buffer_rx)
              s == Min(Len(before), DATA_PACKET_SIZE)
              w == Len(bridge_ret'.sent)
          IN /\ bridge_ret'.staged = SubSeq(before, 1, s)
             /\ bridge_ret'.sent = SubSeq(before, 1, w)
             /\ bridge_ret'.res = OkVal(w)
             /\ RbLen(ring_buffer_rx') = RbLen(ring_buffer_rx) - w
             /\ IsRun(SubSeq(before, w + 1, s), Contents(ring_buffer_rx'))]_vars

\* the endpoint accepted a strict, non-empty part of the staged bytes
PartialWriteWitness ==
    /\ bridge_ret.op = "process_rx_buffer"
    /\ bridge_ret.res.ok
    /\ 0 < Len(bridge_ret.sent)
    /\ Len(bridge_ret.sent) < Len(bridge_ret.staged)

\* C14: the unsent remainder is appended at the tail of the RX ring: it is
\* popped after every byte that was in the ring when it was put back, and
\* bytes stored later are popped after it
TailReenqueue ==
    [][/\ (bridge_ret'.op = "process_rx_buffer" /\ ~IsEmpty(ring_buffer_rx)
              /\ ~WriteFailed)
          => LET before == Contents(ring_buffer_rx)
                 s == Len(bridge_ret'.staged)
                 w == Len(bridge_ret'.sent)
             IN Contents(ring_buffer_rx') =
                    SubSeq(before, s + 1, Len(before)) \o SubSeq(before, w + 1, s)
       /\ (bridge_ret'.op = "store_to_buffer" /\ ring_buffer_rx' # ring_buffer_rx)
          => IsPrefix(Contents(ring_buffer_rx), Contents(ring_buffer_rx'))]_vars

\* a remainder was put back behind bytes that had not been staged
TailReenqueueWitness ==
    /\ bridge_ret.op = "process_rx_buffer"
    /\ bridge_ret.res.ok
    /\ Len(bridge_ret.sent) < Len(bridge_ret.staged)
    /\ RbLen(ring_buffer_rx) > Len(bridge_ret.staged) - Len(bridge_ret.sent)

----------------------------------------------------------------------------
(* Claims about the CodeEncoder *)

RECURSIVE DecimalDigits(_)
\* the decimal digits of n, most significant first, without leading zeros
DecimalDigits(n) ==
    IF n < 10 THEN <<n>> ELSE DecimalDigits(n \div 10) \o <<n % 10>>

\* the international Morse pattern of a decimal digit
MorseDigit(d) ==
    [i \in 1..5 |-> IF d <= 5
                        THEN (IF i <= d THEN "." ELSE "-")
                        ELSE (IF i <= d - 5 THEN "-" ELSE ".")]

RECURSIVE JoinGroups(_)
\* the patterns of a digit sequence, one space between neighbours
JoinGroups(ds) ==
    IF Len(ds) = 1
        THEN MorseDigit(ds[1])
        ELSE JoinGroups(SubSeq(ds, 1, Len(ds) - 1)) \o <<" ">> \o MorseDigit(ds[Len(ds)])

\* C18: for every 16-bit n, number_to_morse(n) writes the decimal digits of n
\* without leading zeros, most significant first, each as its 5-symbol
\* pattern, separated by one space, and returns the written length;
\* encode(0) = "-----", encode(5) = ".....", encode(123) = ".---- ..--- ...--",
\* encode(100) = ".---- ----- -----"
EncoderFunction ==
    morse.called
    => /\ morse.ok
       /\ morse.text = JoinGroups(DecimalDigits(number))
       /\ morse.length = 6 * Len(DecimalDigits(number)) - 1
       /\ morse.length = Len(morse.text)
       /\ number = 0 => morse.text = <<"-", "-", "-", "-", "-">>
       /\ number = 5 => morse.text = <<".", ".", ".", ".", ".">>
       /\ number = 123 => morse.text = <<".", "-", "-", "-", "-", " ",
                                         ".", ".", "-", "-", "-", " ",
                                         ".", ".", ".", "-", "-">>
       /\ number = 100 => morse.text = <<".", "-", "-", "-", "-", " ",
                                         "-", "-", "-", "-", "-", " ",
                                         "-", "-", "-", "-", "-">>

\* a number with an interior and a trailing zero was encoded
EncoderFunctionWitness ==
    /\ morse.called
    /\ number = 100
    /\ morse.length = 17

----------------------------------------------------------------------------
(* Claims about the FaultDispatcher *)

\* the central variant each subsystem taxonomy is to collapse into
CentralVariant ==
    [UsbError |-> "UsbError", DmaError |-> "DmaError", UsartError |-> "DmaError",
     LedError |-> "LedError", RingBufferError |-> "BufferOverflow"]

\* C19: conversion into DeviceError maps every UsbError variant to UsbError,
\* every DmaError variant to DmaError, every UsartError variant to DmaError,
\* every LedError variant to LedError and every RingBufferError variant to
\* BufferOverflow; the code handle_error enqueues is the ordinal of that
\* central variant
TaxonomyMapping ==
    (fault_ret.op = "handle_error" /\ fault_ret.source.domain \in SourceDomains)
    => LET central == MkError("DeviceError", CentralVariant[fault_ret.source.domain])
       IN /\ fault_ret.device = central
          /\ fault_ret.code = ErrorCode(central)
          /\ fault_ret.enqueued => error_queue[Len(error_queue)] = ErrorCode(central)

\* RingBufferError::BufferEmpty, the third variant of its enum, was reported
\* and enqueued as the code of DeviceError::BufferOverflow
TaxonomyMappingWitness ==
    /\ fault_ret.op = "handle_error"
    /\ fault_ret.source = MkError("RingBufferError", "BufferEmpty")
    /\ fault_ret.enqueued
    /\ error_queue[Len(error_queue)] = 2

\* C20: when the fault queue is full, add_error_code fails and leaves the
\* queue as it was, handle_error swallows the failure, and no data-path state
\* (ring buffers, retry counter, DMA state) changes
OverflowContained ==
    [][(fault_ret'.op = "handle_error" /\ Len(error_queue) = QueueCapacity)
       => /\ ~fault_ret'.enqueued
          /\ error_queue' = error_queue
          /\ UNCHANGED <<ring_buffer_rx, ring_buffer_tx, rb, retry_count, usart_6,
                         otg_fs>>]_vars

\* a report was dropped at a full queue
OverflowContainedWitness ==
    /\ fault_ret.op = "handle_error"
    /\ ~fault_ret.enqueued
    /\ Len(error_queue) = QueueCapacity

----------------------------------------------------------------------------
(* Claims about the FaultAnnunciator and the display task *)

\* the symbols of a text the LED lights for
Signals(text) == SelectSeq(text, LAMBDA c : c # " ")

\* the text of the code taken from the queue last
CurrentText == NumberToMorse(dequeued_log[Len(dequeued_log)], MAX_MORSE_LENGTH).text

\* C15: a fault code is dequeued only when no sequence is loaded; codes are
\* taken in the order they were enqueued; the LED lights for the symbols of
\* the loaded code only, in their order, and the sequence is reset only after
\* all of them were shown, also when codes are enqueued during playback
OrderedPlayback ==
    [][/\ Len(error_queue') < Len(error_queue)
          => /\ ~red_led.loaded
             /\ error_queue' = Tail(error_queue)
       /\ IsPrefix(dequeued_log', enqueued_log')
       /\ red_led'.loaded
          => /\ dequeued_log' # <<>>
             /\ red_led'.morse_sequence =
                    NumberToMorse(dequeued_log'[Len(dequeued_log')], MAX_MORSE_LENGTH).text
             /\ IsPrefix(shown', Signals(red_led'.morse_sequence))
       /\ (red_led.loaded /\ ~red_led'.loaded)
          => shown = Signals(CurrentText)]_vars

\* the second code was loaded after the first was played to its reset
OrderedPlaybackWitness ==
    /\ Len(dequeued_log) = 2
    /\ dequeued_log[1] # dequeued_log[2]
    /\ red_led.loaded
    /\ red_led.morse_sequence = CurrentText

\* the number of codes played through their terminal reset
Completed == Len(dequeued_log) - (IF red_led.loaded THEN 1 ELSE 0)

\* C16: every fault code whose enqueue succeeded is eventually dequeued and
\* played to its terminal reset, while time advances and the display task is
\* scheduled, also if no further fault is enqueued
FaultDisplayLiveness ==
    \A k \in 1..MaxFaults : (Len(enqueued_log) >= k) ~> (Completed >= k)

\* C17: the display task suspends at a timer delay between any two
\* consecutive annunciator updates
SuspendsBetweenUpdates == display.updates <= 1

----------------------------------------------------------------------------
(* Claims about the FaultCodeQueue *)

\* C21: the queue's capacity is the N of Queue<u16, N> (256): from an empty
\* queue N consecutive add_error_code calls succeed, so an enqueue fails only
\* at a queue that holds N codes
QueueHoldsN ==
    (fault_ret.op = "handle_error" /\ ~fault_ret.enqueued)
    => Len(error_queue) = ERROR_QUEUE_LEN

\* C22: add_error_code, get_first_error_code and has_errors are indivisible
\* for every interrupt priority: a call that has begun its queue access is
\* the running context with interrupts disabled, and for any interleaving of
\* the producers and the consumer the codes dequeued followed by the codes
\* queued are the codes whose enqueue succeeded, in the order they completed
QueueAtomicity ==
    /\ dequeued_log \o error_queue = enqueued_log
    /\ \A i \in 1..Len(cs_stack) :
           cs_stack[i].pc \in {"read", "write", "exit"}
           => i = Len(cs_stack) /\ primask

\* the consumer has preempted a producer that was about to disable
\* interrupts, and has dequeued a code
QueueAtomicityWitness ==
    /\ Len(cs_stack) >= 2
    /\ cs_stack[1].op = "add"
    /\ Top.op = "get" /\ Top.pc = "exit"
    /\ dequeued_log # <<>>

----------------------------------------------------------------------------
(* Claims about the RTIC resources *)

\* the places, task and nesting depth, where r is held
HoldersOf(r) ==
    {<<i, j>> \in (1..Len(running)) \X (1..Cardinality(Resources)) :
        j <= Len(running[i].held) /\ running[i].held[j] = r}

\* C23: with the priorities display 5 > USB 4 > DMA/USART and forwarding 3 >
\* heartbeat 1, no two contexts are inside a lock on the same shared resource
\* at once under any preemption pattern, and the nested locks never deadlock:
\* the resource the running task is about to lock is held by nobody
PriorityCeilingExclusion ==
    /\ \A r \in Resources : Cardinality(HoldersOf(r)) <= 1
    /\ (running # <<>> /\ RunningTop.pc <= Len(Tasks[RunningTop.task].body)
            /\ Tasks[RunningTop.task].body[RunningTop.pc].op = "lock")
       => HoldersOf(Tasks[RunningTop.task].body[RunningTop.pc].res) = {}

\* the USB handler has preempted the heartbeat inside its nested locks and
\* holds its own two resources
PriorityCeilingExclusionWitness ==
    /\ Len(running) >= 2
    /\ running[1].task = "blue_led_blink" /\ Len(running[1].held) = 2
    /\ RunningTop.task = "otg_fs" /\ Len(RunningTop.held) = 2

----------------------------------------------------------------------------
(* Claims about the DMA data paths *)

\* C24: handle_dma_tx(n) fails with BufferUnderflow, popping nothing, leaving
\* the hardware TX buffer untouched and starting no transfer, exactly when n
\* exceeds the hardware buffer size or the length of the TX ring; otherwise
\* exactly n bytes are popped in FIFO order, copied to the first n bytes of
\* the hardware TX buffer, and a DMA start is issued
TxPath ==
    [][\A n \in TxRequests :
         HandleDmaTxCall(n)
         => LET before == Contents(ring_buffer_tx) IN
            IF n > DMA_BUFFER_LEN \/ n > RbLen(ring_buffer_tx)
                THEN /\ ~bridge_ret'.res.ok
                     /\ bridge_ret'.res.err = MkError("DmaError", "BufferUnderflow")
                     /\ ring_buffer_tx' = ring_buffer_tx
                     /\ dma'.tx_buffer = dma.tx_buffer
                     /\ dma'.started = "none"
                     /\ usart_6' = usart_6
                ELSE /\ bridge_ret'.res.ok
                     /\ Contents(ring_buffer_tx') = SubSeq(before, n + 1, Len(before))
                     /\ SubSeq(dma'.tx_buffer, 1, n) = SubSeq(before, 1, n)
                     /\ dma'.started = "tx"
                     /\ usart_6'.dma_tx_enabled]_vars

\* a request that fits was sent from a ring that held more than it
TxPathWitness ==
    /\ bridge_ret.op = "handle_dma_tx"
    /\ bridge_ret.res.ok
    /\ Len(bridge_ret.staged) >= 1
    /\ RbLen(ring_buffer_tx) >= 1
    /\ dma.started = "tx"

\* C25: handle_dma_rx issues the DMA receive, computes received =
\* DMA_BUFFER_LEN - remaining transfer count and pushes exactly the first
\* received bytes of the hardware RX buffer onto the RX ring; with fewer
\* than received free bytes it fails with BufferOverflow and the ring is
\* unchanged
RxPath ==
    [][CallHandleDmaRx
       => LET received == DMA_BUFFER_LEN - dma.rx_ndtr
              burst == SubSeq(dma.rx_buffer, 1, received)
          IN /\ usart_6'.dma_rx_enabled
             /\ dma'.started = "rx"
             /\ IF AvailableSpace(ring_buffer_rx) < received
                    THEN /\ bridge_ret'.res.err = MkError("DmaError", "BufferOverflow")
                         /\ ~bridge_ret'.res.ok
                         /\ ring_buffer_rx' = ring_buffer_rx
                    ELSE /\ bridge_ret'.res.ok
                         /\ Contents(ring_buffer_rx') =
                                Contents(ring_buffer_rx) \o burst]_vars

\* a burst shorter than the hardware buffer was stored behind earlier bytes
RxPathWitness ==
    /\ bridge_ret.op = "handle_dma_rx"
    /\ bridge_ret.res.ok
    /\ Len(bridge_ret.staged) >= 1
    /\ dma.rx_ndtr >= 1
    /\ RbLen(ring_buffer_rx) > Len(bridge_ret.staged)

\* C26: if the RX DMA transfer is in the error state when handle_dma_rx
\* runs, handle_dma_rx returns ReadError and pushes nothing onto the RX ring
RxFaultReported ==
    [][(CallHandleDmaRx /\ usart_6.dma_rx_error)
       => /\ bridge_ret'.res.err = MkError("DmaError", "ReadError")
          /\ ring_buffer_rx' = ring_buffer_rx]_vars

----------------------------------------------------------------------------
(* Claims about the encoder's destination and the annunciator's timing *)

\* C27: number_to_morse returns an error, and never writes past the
\* destination, whenever the destination is shorter than the encoding; the
\* encoding of a number of d digits has 6d - 1 symbols, at most 29; with the
\* destination of MAX_MORSE_LENGTH symbols neither the encoder's error nor
\* 'Sequence too long' of start_morse_sequence can occur
DestinationBound ==
    morse.called
    => LET need == 6 * Len(DecimalDigits(number)) - 1 IN
       /\ need <= 6 * Len(DecimalDigits(U16_MAX)) - 1
       /\ need <= 29
       /\ Len(morse.text) <= buffer_len
       /\ buffer_len < need => ~morse.ok
       /\ buffer_len >= need => morse.ok /\ morse.length = need
       /\ buffer_len = MAX_MORSE_LENGTH
          => /\ morse.ok
             /\ morse.length <= MAX_MORSE_LENGTH
             /\ StartMorseSequence(InitOff, number).loaded

\* a five-digit number filled a destination one symbol short and failed
DestinationBoundWitness ==
    /\ morse.called
    /\ ~morse.ok
    /\ number > 9999
    /\ buffer_len = 28
    /\ Len(morse.text) = buffer_len

\* C28: after a dot or dash ends, the LED stays off in Pause for at least the
\* inter-symbol pause, measured from the moment the LED was switched off,
\* before the annunciator advances to the next symbol
SymbolPauseKept ==
    [][(/\ red_led.morse_state = "Pause"
        /\ CurrentSymbol(red_led) \in {".", "-"}
        /\ red_led'.morse_state # "Pause")
       => dwell >= MORSE_SYMBOL_PAUSE]_vars

\* C29: once the LED is switched on for a symbol it stays on, in Signal,
\* until the time since the activation is at least 200 ms for a dot and
\* three times that for a dash; the first update at which that holds
\* switches the LED off and enters Pause, and nothing switches it off earlier
SignalDuration ==
    [][red_led.morse_state = "Signal"
       => LET duration == IF CurrentSymbol(red_led) = "."
                              THEN 200
                              ELSE 3 * 200
          IN /\ red_led.pin = "on"
             /\ CurrentSymbol(red_led) \in {".", "-"}
             /\ display.pc = "run" /\ HasErrors(error_queue)
             /\ IF DisplayUpdate /\ dwell >= duration
                    THEN red_led' = [red_led EXCEPT !.pin = "off",
                                                    !.morse_state = "Pause"]
                    ELSE red_led' = red_led]_vars

\* a dash has just been switched off, three dots after its activation
SignalDurationWitness ==
    /\ red_led.morse_state = "Pause"
    /\ red_led.pin = "off"
    /\ CurrentSymbol(red_led) = "-"
    /\ dwell = 0
    /\ CalculateElapsed(now, red_led.last_toggle) = 3 * MORSE_DOT_DURATION
    /\ Len(shown) > 1

LedLitIffSignal ==
    /\ (red_led.pin = "on") <=> (red_led.morse_state = "Signal")
    /\ red_led.morse_state \in {"Idle", "Pause"} => red_led.pin = "off"
    /\ ~red_led.loaded => red_led.pin = "off" /\ red_led.morse_state = "Idle"

\* the LED is off in the pause that follows a signal of the second code's text
LedLitIffSignalWitness ==
    /\ red_led.loaded
    /\ red_led.morse_state = "Pause"
    /\ red_led.pin = "off"
    /\ CurrentSymbol(red_led) \in {".", "-"}
    /\ red_led.morse_index > 0
    /\ Len(dequeued_log) > 0

\* the symbols of the loaded text the annunciator has entered so far: those
\* before the index, and the one under it once Idle was left for it
Entered(led) ==
    SubSeq(led.morse_sequence, 1,
           led.morse_index + (IF led.morse_state = "Idle" THEN 0 ELSE 1))

HeartbeatSuppressed ==
    [][(HeartbeatRun /\ red_led.loaded)
       => heartbeat'.observed /\ blue_led' = "off"]_vars

\* how often byte b occurs in seq
Occurrences(b, seq) == Cardinality({i \in DOMAIN seq : seq[i] = b})

\* C34: for every outcome of the endpoint write, each byte that was in the RX
\* ring before process_rx_buffer is afterwards either accepted by the USB
\* endpoint or still in the RX ring; a write error leaves the contents of the
\* ring as they were
NoDataLoss ==
    [][CallProcessRxBuffer
       => /\ \A b \in Byte :
                Occurrences(b, Contents(ring_buffer_rx)) =
                    Occurrences(b, bridge_ret'.sent)
                    + Occurrences(b, Contents(ring_buffer_rx'))
          /\ ~bridge_ret'.res.ok
             => Contents(ring_buffer_rx') = Contents(ring_buffer_rx)]_vars

----------------------------------------------------------------------------
(* Claims about the composed forwarding paths *)

\* C35: every byte admitted into the TX ring by handle_usb is eventually
\* popped by handle_dma_tx, for every interleaving of OTG_FS interrupts with
\* the forwarding task, a rejected spawn included: no byte stays in the TX
\* ring once the USB input has stopped and the forwarding task has finished
TxDrained ==
    (tx_task.state = "idle" /\ otg_fs.ep_out = <<>>) => IsEmpty(ring_buffer_tx)

\* C36: every byte pushed onto the RX ring is eventually written to the USB
\* endpoint while the endpoint accepts writes, with no further event from
\* the wire: once the draining task has finished without a write error and
\* no DMA event is pending, no byte is left in the RX ring
RxDrained ==
    (/\ rx_task.state = "idle"
     /\ ~dma.rx_complete
     /\ bridge_ret.op = "ring_buffer_rx_to_serial"
     /\ bridge_ret.res.ok
     /\ bridge_ret.sent # <<>>)
    => IsEmpty(ring_buffer_rx)

\* C37: the hardware TX buffer is never overwritten, and the TX transfer
\* never restarted, while a TX transfer started from it is still active;
\* handle_dma_tx acts only when the previous transfer is idle or complete
TxBufferExclusive ==
    [][(/\ TxTaskRun
        /\ usart_6.dma_tx_enabled /\ ~dma.tx_complete
        /\ \E i \in DOMAIN dma.tx_buffer : dma.tx_buffer[i] \in Byte)
       => dma'.tx_buffer = dma.tx_buffer /\ dma'.started = "none"]_vars

FallbackUnreachable ==
    [][(UpdateCall /\ red_led.loaded) =>
          /\ red_led.morse_index <= red_led.morse_length
          /\ red_led.morse_length <= 29
          /\ (red_led.morse_state = "Idle" /\ red_led.morse_index < red_led.morse_length)
                 => CurrentSymbol(red_led) \in {".", "-", " "}
          /\ red_led.morse_state = "Signal" => CurrentSymbol(red_led) \in {".", "-"}
          /\ red_led.morse_state = "Pause" => CurrentSymbol(red_led) \in {".", "-", " "}
          /\ ~red_led'.loaded => /\ red_led.morse_state = "Idle"
                                 /\ red_led.morse_index = red_led.morse_length]_vars

\* the last symbol of the longest text, that of a code of five digits, is
\* looked at in Pause
FallbackUnreachableWitness ==
    /\ red_led.loaded
    /\ red_led.morse_length = 29
    /\ red_led.morse_index = 28
    /\ red_led.morse_state = "Pause"
    /\ number = U16_MAX

\* C40: the elapsed time survives the wrap of the timestamp. At every update in
\* Signal or Pause, also when the clock has wrapped since last_toggle was
\* recorded (now < last_toggle), the elapsed time computed is the time that has
\* really passed since then, and the phase is left at that update exactly when
\* this time has reached the phase's duration: a wrap neither ends a phase
\* early nor stalls it
WrapMeasured ==
    [][(/\ DisplayUpdate
        /\ red_led.loaded
        /\ red_led.morse_state \in {"Signal", "Pause"})
       => LET symbol == CurrentSymbol(red_led)
              signal == IF symbol = "." THEN MORSE_DOT_DURATION
                                        ELSE MORSE_DASH_DURATION
              required == IF red_led.morse_state = "Signal"
                              THEN signal
                              ELSE IF symbol = " " THEN MORSE_WORD_PAUSE
                                                   ELSE MORSE_SYMBOL_PAUSE
              since == IF red_led.morse_state = "Pause" /\ symbol # " "
                           THEN signal + dwell
                           ELSE dwell
          IN /\ since < TimeWrap
             /\ CalculateElapsed(now, red_led.last_toggle) = since
             /\ red_led'.morse_state # red_led.morse_state <=> since >= required]_vars

\* a dash was switched off three dots after its activation, the clock having
\* wrapped in between
WrapMeasuredWitness ==
    /\ red_led.morse_state = "Pause"
    /\ red_led.pin = "off"
    /\ CurrentSymbol(red_led) = "-"
    /\ dwell = 0
    /\ now < red_led.last_toggle
    /\ (now + TimeWrap) - red_led.last_toggle = MORSE_DASH_DURATION

====
